---------------------------- MODULE Spec2Model ----------------------------
(***************************************************************************)
(* State-machine model of the EV charging station locator:                 *)
(*   models/chatbot.py        EVChatbot (intent matching, canned replies)  *)
(*   utils/data_processor.py  EVDataProcessor (distance, time, score)      *)
(*   utils/route_optimizer.py RouteOptimizer (graph, shortest path, trips) *)
(*   models/recommendation_model.py StationRecommendationModel (KNN)       *)
(*   data/ev_stations_data.py load_ev_stations                             *)
(*   app.py                   the Station Finder and AI Assistant tabs     *)
(* Texts are sequences of one-character strings, so that lowercasing,      *)
(* punctuation stripping, tokenizing and the substring test of             *)
(* match_intent are computed character by character as the code does.      *)
(***************************************************************************)
EXTENDS Integers, Sequences, FiniteSets, TLC

VARIABLES
    \* EVChatbot (one get_response call)
    punkt_ok,       \* chatbot.py:144-148 does word_tokenize succeed (tokenizer data present)
    chat_input,     \* the user_input handed to get_response (raw text)
    chat_intent,    \* result of match_intent inside get_response ("idle" before the call)
    chat_response,  \* value returned by get_response
    \* EVDataProcessor.calculate_distance / calculate_estimated_time (one call each)
    dist_args,      \* <<lat1, lon1, lat2, lon2>>
    dist_out,       \* outcome of calculate_distance
    time_out,       \* value returned by calculate_estimated_time for that distance
    \* EVDataProcessor.rank_stations (one call)
    score_df,       \* the table passed in: [has_distance, rows]
    ranked,         \* [done, rows]: the table returned, with its station_score column
    \* EVDataProcessor.find_nearest_stations (one call)
    nearest,        \* the arguments of the call and its outcome
    \* RouteOptimizer
    graph,          \* self.graph: [nodes (insertion order), attrs, weight]
    built,          \* arguments of the latest build_graph_from_stations, and whether
                    \* the graph it cleared held a node its table does not name
    sp_out,         \* outcome of the latest find_shortest_path on the current graph
    \* StationRecommendationModel
    knn,            \* [is_trained, fit]: the table the scaler and knn_model were fitted on
    rec_out,        \* the latest recommend_stations_knn call: arguments and outcome
    pref,           \* a get_personalized_recommendations call: arguments and outcome
    \* RouteOptimizer.find_optimal_station / calculate_multi_stop_route
    trip_in,        \* the arguments of the calls: [user_location, stations_df, num_stops]
    opt_out,        \* the result of find_optimal_station(user_location, stations_df)
    multi_out,      \* the result of calculate_multi_stop_route on the same arguments
    alt_out,        \* the result of get_alternative_routes on the same table
    \* data/ev_stations_data.py
    loads,          \* the tables returned by the calls of load_ev_stations so far
    frames,         \* the DataFrame objects alive in one script run, by reference
    \* app.py, Station Finder tab (one script run, then button presses)
    finder,         \* the widget values of the run and the table nearby_stations
    route_report,   \* what the latest 'Get Optimal Route to ...' press wrote
    \* app.py, AI Assistant tab of one session
    chat_history,   \* st.session_state.chat_history
    last_op,        \* the interaction the latest script run handled
    \* app.py, sessions sharing the cached RouteOptimizer
    sess            \* per session: where its find_optimal_station call stands

chat_vars == <<punkt_ok, chat_input, chat_intent, chat_response>>
dist_vars == <<dist_args, dist_out, time_out>>
score_vars == <<score_df, ranked, nearest>>
route_vars == <<graph, built, sp_out>>
rec_vars == <<knn, rec_out, pref>>
trip_vars == <<trip_in, opt_out, multi_out, alt_out>>
data_vars == <<loads, frames>>
finder_vars == <<finder, route_report>>
ui_vars == <<chat_history, last_op>>
sess_vars == <<sess>>
\* the components next to the four above
other_vars == <<rec_vars, trip_vars, data_vars, finder_vars, ui_vars, sess_vars>>
vars == <<chat_vars, dist_vars, score_vars, route_vars, other_vars>>

-----------------------------------------------------------------------------
(* Generic helpers on sequences *)

Range(s) == { s[i] : i \in 1..Len(s) }

\* Python's max(a, b) and min(a, b) on numbers
Max2(a, b) == IF b > a THEN b ELSE a
Min2(a, b) == IF b < a THEN b ELSE a

\* n / d rounded to the nearest integer, ties to the even one (Python's round)
RoundHalfEven(n, d) ==
    LET q == n \div d
        r == n % d
    IN  IF 2 * r < d THEN q
        ELSE IF 2 * r > d THEN q + 1
        ELSE IF q % 2 = 0 THEN q ELSE q + 1

\* a value that may be Python's None
NoneValue == [ is_none |-> TRUE, v |-> 0 ]
Num(x) == [ is_none |-> FALSE, v |-> x ]

-----------------------------------------------------------------------------
(* models/chatbot.py *)

Letters == << "a","b","c","d","e","f","g","h","i","j","k","l","m",
              "n","o","p","q","r","s","t","u","v","w","x","y","z" >>
Capitals == << "A","B","C","D","E","F","G","H","I","J","K","L","M",
               "N","O","P","Q","R","S","T","U","V","W","X","Y","Z" >>
DigitChars == { "0","1","2","3","4","5","6","7","8","9" }

\* str.lower() on one character
lower(c) ==
    IF c \in Range(Capitals)
    THEN Letters[CHOOSE i \in 1..Len(Capitals) : Capitals[i] = c]
    ELSE c

\* the characters the regular expression [^\w\s] leaves in place
WordChars == Range(Letters) \cup Range(Capitals) \cup DigitChars \cup {"_"}
IsWordChar(c) == c \in WordChars
IsSpaceChar(c) == c = " "

\* stopwords.words('english'), the entries that the pattern table and the
\* bounded inputs can contain
stop_words ==
    { <<"h","o","w">>, <<"t","o">>, <<"i","n">>, <<"w","h","y">>, <<"o","u","t">>,
      <<"m","e">>, <<"w","h","e","r","e">>, <<"d","o">>, <<"d","o","e","s">>,
      <<"i">>, <<"i","t">>, <<"t","h","e">>, <<"a">>, <<"w","h","a","t">>,
      <<"a","r","e">>, <<"i","s">> }

-----------------------------------------------------------------------------
(* The values each component holds while a specification exercises another *)

ChatIdle ==
    /\ punkt_ok = TRUE
    /\ chat_input = << >>
    /\ chat_intent = "idle"
    /\ chat_response = ""

DistIdle ==
    /\ dist_args = << >>
    /\ dist_out = [ state |-> "idle", value |-> NoneValue ]
    /\ time_out = [ state |-> "idle", v |-> 0 ]

ScoreIdle ==
    /\ score_df = [ has_distance |-> FALSE, rows |-> << >> ]
    /\ ranked = [ done |-> FALSE, rows |-> << >> ]
    /\ nearest = [ state |-> "idle" ]

EmptyGraph == [ nodes |-> << >>, attrs |-> << >>, weight |-> << >> ]

RouteIdle ==
    /\ graph = EmptyGraph
    /\ built = [ done |-> FALSE, stations_df |-> << >>, user_location |-> <<0, 0>>,
                 stale |-> FALSE ]
    /\ sp_out = [ outcome |-> "idle" ]

RecIdle ==
    /\ knn = [ is_trained |-> FALSE, fit |-> << >> ]
    /\ rec_out = [ state |-> "idle" ]
    /\ pref = [ state |-> "idle" ]

TripIdle ==
    /\ trip_in = [ user_location |-> <<0, 0>>, stations_df |-> << >>, num_stops |-> 0 ]
    /\ opt_out = [ state |-> "idle" ]
    /\ multi_out = [ state |-> "idle" ]
    /\ alt_out = [ state |-> "idle" ]

DataIdle ==
    /\ loads = << >>
    /\ frames = [ state |-> "idle" ]

FinderIdle ==
    /\ finder = [ state |-> "idle" ]
    /\ route_report = [ state |-> "idle" ]

UiIdle ==
    /\ chat_history = << >>
    /\ last_op = "none"

SessIdle == sess = << >>

OthersIdle == RecIdle /\ TripIdle /\ DataIdle /\ FinderIdle /\ UiIdle /\ SessIdle

Intents ==
  << [ name |-> "greeting",
       patterns |-> <<
          <<"h","e","l","l","o">>,
          <<"h","i">>,
          <<"h","e","y">>,
          <<"g","r","e","e","t","i","n","g","s">>,
          <<"g","o","o","d"," ","m","o","r","n","i","n","g">>,
          <<"g","o","o","d"," ","a","f","t","e","r","n","o","o","n">> >>,
       responses |-> <<
          "Hello! I'm here to help you wi",
          "Hi there! Looking for charging",
          "Greetings! I can help you find" >> ],
     [ name |-> "find_station",
       patterns |-> <<
          <<"f","i","n","d"," ","s","t","a","t","i","o","n">>,
          <<"c","h","a","r","g","i","n","g"," ","s","t","a","t","i","o","n">>,
          <<"w","h","e","r","e"," ","t","o"," ","c","h","a","r","g","e">>,
          <<"n","e","a","r","e","s","t"," ","s","t","a","t","i","o","n">>,
          <<"c","h","a","r","g","i","n","g"," ","p","o","i","n","t">>,
          <<"f","i","n","d"," ","c","h","a","r","g","e","r">>,
          <<"l","o","c","a","t","e"," ","s","t","a","t","i","o","n">>,
          <<"s","t","a","t","i","o","n"," ","n","e","a","r"," ","m","e">> >>,
       responses |-> <<
          "I can help you find nearby cha",
          "To find charging stations near",
          "Looking for a charging station" >> ],
     [ name |-> "pricing",
       patterns |-> <<
          <<"p","r","i","c","e">>,
          <<"c","o","s","t">>,
          <<"h","o","w"," ","m","u","c","h">>,
          <<"p","r","i","c","i","n","g">>,
          <<"c","h","a","r","g","i","n","g"," ","c","o","s","t">>,
          <<"f","e","e">>,
          <<"r","a","t","e">>,
          <<"e","x","p","e","n","s","i","v","e">> >>,
       responses |-> <<
          "Charging prices vary by statio",
          "EV charging costs depend on th",
          "Pricing varies by location and" >> ],
     [ name |-> "charging_time",
       patterns |-> <<
          <<"h","o","w"," ","l","o","n","g">>,
          <<"c","h","a","r","g","i","n","g"," ","t","i","m","e">>,
          <<"d","u","r","a","t","i","o","n">>,
          <<"t","i","m","e"," ","t","o"," ","c","h","a","r","g","e">>,
          <<"f","a","s","t"," ","c","h","a","r","g","i","n","g">>,
          <<"q","u","i","c","k"," ","c","h","a","r","g","e">> >>,
       responses |-> <<
          "Charging time depends on your ",
          "Fast chargers (50-150 kW) typi",
          "For a typical EV with a 60 kWh" >> ],
     [ name |-> "connector_types",
       patterns |-> <<
          <<"c","o","n","n","e","c","t","o","r">>,
          <<"p","l","u","g">>,
          <<"c","a","b","l","e">>,
          <<"c","c","s">>,
          <<"c","h","a","d","e","m","o">>,
          <<"t","y","p","e"," ","2">>,
          <<"j","1","7","7","2">>,
          <<"c","o","n","n","e","c","t","o","r"," ","t","y","p","e">> >>,
       responses |-> <<
          "Common EV connectors include: ",
          "The main connector types are: ",
          "Your EV's connector depends on" >> ],
     [ name |-> "availability",
       patterns |-> <<
          <<"a","v","a","i","l","a","b","l","e">>,
          <<"a","v","a","i","l","a","b","i","l","i","t","y">>,
          <<"s","t","a","t","i","o","n"," ","s","t","a","t","u","s">>,
          <<"i","n"," ","u","s","e">>,
          <<"o","c","c","u","p","i","e","d">>,
          <<"f","r","e","e">>,
          <<"o","p","e","n">> >>,
       responses |-> <<
          "Station availability is shown ",
          "You can check station availabi",
          "Real-time availability is disp" >> ],
     [ name |-> "route_planning",
       patterns |-> <<
          <<"r","o","u","t","e">>,
          <<"p","l","a","n"," ","t","r","i","p">>,
          <<"n","a","v","i","g","a","t","i","o","n">>,
          <<"d","i","r","e","c","t","i","o","n","s">>,
          <<"b","e","s","t"," ","r","o","u","t","e">>,
          <<"o","p","t","i","m","i","z","e"," ","r","o","u","t","e">> >>,
       responses |-> <<
          "Our route optimization feature",
          "The route planner uses Dijkstr",
          "For route planning, select you" >> ],
     [ name |-> "payment",
       patterns |-> <<
          <<"p","a","y","m","e","n","t">>,
          <<"p","a","y">>,
          <<"c","r","e","d","i","t"," ","c","a","r","d">>,
          <<"p","a","y","m","e","n","t"," ","m","e","t","h","o","d">>,
          <<"h","o","w"," ","t","o"," ","p","a","y">>,
          <<"a","p","p">>,
          <<"m","e","m","b","e","r","s","h","i","p">> >>,
       responses |-> <<
          "Payment methods vary by chargi",
          "You can typically pay using: 1",
          "Major charging networks like C" >> ],
     [ name |-> "benefits",
       patterns |-> <<
          <<"b","e","n","e","f","i","t","s">>,
          <<"w","h","y"," ","e","v">>,
          <<"a","d","v","a","n","t","a","g","e","s">>,
          <<"e","c","o"," ","f","r","i","e","n","d","l","y">>,
          <<"e","n","v","i","r","o","n","m","e","n","t">>,
          <<"s","a","v","i","n","g","s">> >>,
       responses |-> <<
          "EV charging benefits include: ",
          "EVs offer significant savings!",
          "Environmental and economic ben" >> ],
     [ name |-> "range_anxiety",
       patterns |-> <<
          <<"r","a","n","g","e">>,
          <<"r","a","n","g","e"," ","a","n","x","i","e","t","y">>,
          <<"b","a","t","t","e","r","y"," ","l","i","f","e">>,
          <<"h","o","w"," ","f","a","r">>,
          <<"d","i","s","t","a","n","c","e">>,
          <<"r","u","n"," ","o","u","t">> >>,
       responses |-> <<
          "Modern EVs have ranges of 250-",
          "Range anxiety is becoming less",
          "To manage range: Plan routes u" >> ],
     [ name |-> "help",
       patterns |-> <<
          <<"h","e","l","p">>,
          <<"s","u","p","p","o","r","t">>,
          <<"a","s","s","i","s","t">>,
          <<"g","u","i","d","e">>,
          <<"h","o","w"," ","t","o"," ","u","s","e">>,
          <<"t","u","t","o","r","i","a","l">> >>,
       responses |-> <<
          "I can help you with: Finding n",
          "Here's what I can assist with:",
          "Need assistance? I can provide" >> ],
     [ name |-> "thanks",
       patterns |-> <<
          <<"t","h","a","n","k">>,
          <<"t","h","a","n","k","s">>,
          <<"a","p","p","r","e","c","i","a","t","e">>,
          <<"h","e","l","p","f","u","l">> >>,
       responses |-> <<
          "You're welcome! Feel free to a",
          "Happy to help! Enjoy your EV c",
          "My pleasure! Drive safe and ch" >> ] >>

DefaultReply == "I'm here to help with EV charging stations!"

\* the table flattened in iteration order of the two nested loops of match_intent
PatternSlots ==
    { <<i, j>> : i \in 1..Len(Intents), j \in 1..8 } \cap
    { s \in (1..Len(Intents)) \X (1..8) : s[2] <= Len(Intents[s[1]].patterns) }

PatternList ==
    [ k \in 1..Cardinality(PatternSlots) |->
        LET s == CHOOSE s \in PatternSlots :
                    Cardinality({ t \in PatternSlots :
                                    t[1] < s[1] \/ (t[1] = s[1] /\ t[2] < s[2]) }) = k - 1
        IN  [ intent |-> Intents[s[1]].name, pattern |-> Intents[s[1]].patterns[s[2]] ] ]

IntentNames == { Intents[i].name : i \in 1..Len(Intents) }

IntentIndex(name) == CHOOSE i \in 1..Len(Intents) : Intents[i].name = name

\* text.split() / word_tokenize on text that holds only word characters and
\* blanks: the maximal runs of non-blank characters
RECURSIVE word_tokenize(_)
word_tokenize(text) ==
    IF text = << >> THEN << >>
    ELSE IF IsSpaceChar(Head(text)) THEN word_tokenize(Tail(text))
    ELSE LET stops == { i \in 1..Len(text) : IsSpaceChar(text[i]) }
             n == IF stops = {} THEN Len(text)
                  ELSE (CHOOSE i \in stops : \A k \in stops : i <= k) - 1
         IN  << SubSeq(text, 1, n) >> \o word_tokenize(SubSeq(text, n + 1, Len(text)))

\* ' '.join(tokens)
RECURSIVE join(_)
join(tokens) ==
    IF tokens = << >> THEN << >>
    ELSE IF Len(tokens) = 1 THEN tokens[1]
    ELSE tokens[1] \o << " " >> \o join(Tail(tokens))

\* the stop-word filter of the try branch
DropStopWords(tokens) == SelectSeq(tokens, LAMBDA w : w \notin stop_words)

\* the try/except of preprocess_text: with the tokenizer data missing
\* word_tokenize raises and the except branch keeps every word
Tokens(text, ok) ==
    IF ok THEN DropStopWords(word_tokenize(text)) ELSE word_tokenize(text)

\* EVChatbot.preprocess_text; ok says whether word_tokenize succeeds
preprocess_text(text, ok) ==
    LET lowered == [ i \in 1..Len(text) |-> lower(text[i]) ]
        stripped == SelectSeq(lowered, LAMBDA c : IsWordChar(c) \/ IsSpaceChar(c))
    IN  Tokens(stripped, ok)

\* preprocess_text(pattern) of chatbot.py:164 for every pattern of the table
\* (the same value at every call, computed once here)
PatternTokens ==
    [ ok \in BOOLEAN |->
        [ k \in 1..Len(PatternList) |-> preprocess_text(PatternList[k].pattern, ok) ] ]

\* ' '.join(pattern_tokens) of chatbot.py:165, likewise
PatternTexts ==
    [ ok \in BOOLEAN |-> [ k \in 1..Len(PatternList) |-> join(PatternTokens[ok][k]) ] ]

\* Python's "a in b" on strings
IsSubstring(a, b) ==
    \E i \in 0..(Len(b) - Len(a)) : SubSeq(b, i + 1, i + Len(a)) = a

\* chatbot.py:167 the condition under which a pattern is scored at all
PatternApplies(pattern_text, user_text) ==
    IsSubstring(pattern_text, user_text) \/ IsSubstring(user_text, pattern_text)

\* chatbot.py:168
OverlapScore(tokens, pattern_tokens) ==
    Cardinality(Range(tokens) \cap Range(pattern_tokens))

\* mutant: the first pattern that scores at all wins
Improves_FirstMatchWins(score, best_score) == score > 0 /\ best_score = 0

\* mutant: a later pattern with an equal score replaces the earlier one
Improves_LastTieWins(score, best_score) == score >= best_score

\* chatbot.py:169
Improves(score, best_score) == score > best_score

\* chatbot.py:169-171 for pattern k, k+1, ...: scored[k] holds the condition of
\* line 167 and the score of line 168 for pattern k
RECURSIVE ScanPatterns(_, _, _, _)
ScanPatterns(k, scored, best_match, best_score) ==
    IF k > Len(PatternList)
    THEN [ best_match |-> best_match, best_score |-> best_score ]
    ELSE IF scored[k].applies /\ Improves(scored[k].score, best_score)
         THEN ScanPatterns(k + 1, scored, PatternList[k].intent, scored[k].score)
         ELSE ScanPatterns(k + 1, scored, best_match, best_score)

\* mutant: best_match is returned also when nothing scored
ChosenIntent_NoFallback(best_match, best_score) == best_match

\* chatbot.py:173
ChosenIntent(best_match, best_score) ==
    IF best_score > 0 THEN best_match ELSE "default"

\* EVChatbot.match_intent; the two nested loops visit PatternList in order
match_intent(user_input, ok) ==
    LET tokens == preprocess_text(user_input, ok)
        user_text == join(tokens)
        scored == [ k \in 1..Len(PatternList) |->
                     [ applies |-> PatternApplies(PatternTexts[ok][k], user_text),
                       score |-> OverlapScore(tokens, PatternTokens[ok][k]) ] ]
        r == ScanPatterns(1, scored, "None", 0)
    IN  ChosenIntent(r.best_match, r.best_score)

\* mutant: without a matched intent the replies of 'help' are used
ResponsesFor_HelpFallback(intent) ==
    IF intent \in IntentNames
    THEN Range(Intents[IntentIndex(intent)].responses)
    ELSE Range(Intents[IntentIndex("help")].responses)

\* chatbot.py:181-184 the values random.choice can return for the intent, or
\* the fixed reply
ResponsesFor(intent) ==
    IF intent \in IntentNames
    THEN Range(Intents[IntentIndex(intent)].responses)
    ELSE { DefaultReply }

\* the bounded user inputs: up to MaxWords words of InputWords, blank-separated
MaxWords == 3

InputWords ==
    { <<"h","o","w">>, <<"l","o","n","g">>,
      <<"C","h","a","r","g","e","?">>, <<"c","h","a","r","g","i","n","g">>,
      <<"s","t","a","t","i","o","n">>, <<"c","o","s","t">>,
      <<"c","h","a","r">>, <<"?","?">> }

UserInputs ==
    { join(ws) : ws \in UNION { [1..n -> InputWords] : n \in 0..MaxWords } }

\* the state before the call: any bounded input, either tokenizer state
InitChat ==
    /\ punkt_ok \in BOOLEAN
    /\ chat_input \in UserInputs
    /\ chat_intent = "idle"
    /\ chat_response = ""
    /\ DistIdle /\ ScoreIdle /\ RouteIdle /\ OthersIdle

\* EVChatbot.get_response(chat_input)
get_response ==
    /\ chat_intent = "idle"
    /\ LET intent == match_intent(chat_input, punkt_ok)
       IN  /\ chat_intent' = intent
           /\ chat_response' \in ResponsesFor(intent)
    /\ UNCHANGED <<punkt_ok, chat_input>>
    /\ UNCHANGED <<dist_vars, score_vars, route_vars, other_vars>>

NextChat == get_response

SpecChat == InitChat /\ [][NextChat]_vars

-----------------------------------------------------------------------------
(* Claims about the chatbot, checked under SpecChat *)

Answered == chat_intent # "idle"

\* The facts the claims are about, for input u: its tokens, the number of
\* distinct tokens each pattern shares with it, and whether the pattern's text
\* contains the input's text or is contained in it
InputFacts(u, ok) ==
    LET tokens == preprocess_text(u, ok)
        ut == join(tokens)
    IN  [ tokens |-> tokens,
          shared |->
            [ k \in 1..Len(PatternList) |->
                LET p == PatternTokens[ok][k]
                IN  Cardinality({ w \in Range(tokens) : \E j \in 1..Len(p) : p[j] = w }) ],
          contained |->
            [ k \in 1..Len(PatternList) |->
                LET pt == PatternTexts[ok][k]
                IN  IsSubstring(pt, ut) \/ IsSubstring(ut, pt) ] ]

Facts == InputFacts(chat_input, punkt_ok)

PatternsOf(intent) == { k \in 1..Len(PatternList) : PatternList[k].intent = intent }

SetMax(S) == IF S = {} THEN 0 ELSE CHOOSE m \in S : \A x \in S : x <= m

\* best overlap of an intent's patterns, over all of them / over the contained ones
BestShared(F, intent) == SetMax({ F.shared[k] : k \in PatternsOf(intent) })
BestContained(F, intent) ==
    SetMax({ F.shared[k] : k \in { q \in PatternsOf(intent) : F.contained[q] } })

\* C3 as stated: no other intent has a pattern sharing strictly more tokens with
\* the input than the best pattern of the returned intent.
C3_HighestOverlapWins ==
    Answered =>
        LET F == Facts
            best == BestShared(F, chat_intent)
        IN  \A k \in 1..Len(PatternList) :
                PatternList[k].intent # chat_intent => F.shared[k] <= best

\* C3 amended: among the patterns whose text contains the input's text or is
\* contained in it, no pattern of another intent shares strictly more tokens
\* with the input than the best such pattern of the returned intent.
C3_HighestContainedOverlapWins ==
    Answered =>
        LET F == Facts
            best == BestContained(F, chat_intent)
        IN  \A k \in 1..Len(PatternList) :
                (PatternList[k].intent # chat_intent /\ F.contained[k])
                    => F.shared[k] <= best

\* an intent was returned while a contained pattern of another intent shares
\* fewer tokens, but at least one
C3_Witness ==
    /\ Answered
    /\ chat_intent \in IntentNames
    /\ LET F == Facts
           best == BestContained(F, chat_intent)
       IN  \E k \in 1..Len(PatternList) :
              /\ PatternList[k].intent # chat_intent
              /\ F.contained[k]
              /\ 0 < F.shared[k]
              /\ F.shared[k] < best

\* the highest score match_intent's condition lets a pattern have, the intents
\* that reach it, and the first of them in the table
TopScore(F) == SetMax({ F.shared[k] : k \in { q \in 1..Len(PatternList) : F.contained[q] } })
TopIntents(F) ==
    LET top == TopScore(F)
    IN  { n \in IntentNames : BestContained(F, n) = top }
FirstOf(names) ==
    Intents[CHOOSE i \in 1..Len(Intents) :
                /\ Intents[i].name \in names
                /\ \A j \in 1..Len(Intents) : Intents[j].name \in names => i <= j].name

\* C4 as stated: when two or more intents tie for the highest overlap score,
\* match_intent returns 'default' and get_response the fixed default reply.
C4_TieGivesDefault ==
    Answered =>
        LET F == Facts
        IN  Cardinality(TopIntents(F)) >= 2
               => (chat_intent = "default" /\ chat_response = DefaultReply)

\* C4 amended: when two or more intents tie for the highest overlap score and
\* that score is positive, match_intent returns the tied intent that comes first
\* in the intent table and get_response returns one of that intent's replies;
\* a tie at score 0 gives 'default' and the fixed default reply.
C4_TieGivesFirstIntent ==
    Answered =>
        LET F == Facts
            tied == TopIntents(F)
        IN  Cardinality(tied) >= 2
               => IF TopScore(F) > 0
                  THEN /\ chat_intent = FirstOf(tied)
                       /\ chat_response \in Range(Intents[IntentIndex(FirstOf(tied))].responses)
                  ELSE chat_intent = "default" /\ chat_response = DefaultReply

\* two intents tie at a positive score
C4_Witness ==
    /\ Answered
    /\ LET F == Facts
       IN  Cardinality(TopIntents(F)) >= 2 /\ TopScore(F) > 0

NoSharedToken(F) == \A k \in 1..Len(PatternList) : F.shared[k] = 0

\* C5: when no pattern shares a token with the preprocessed input (empty input,
\* only stop words, only punctuation), match_intent returns 'default' and
\* get_response the fixed default reply.
C5_NoMatchGivesDefault ==
    Answered =>
        (NoSharedToken(Facts) => (chat_intent = "default" /\ chat_response = DefaultReply))

\* a non-empty input that preprocessing empties (stop words, punctuation)
C5_Witness ==
    /\ Answered
    /\ chat_input # << >>
    /\ punkt_ok
    /\ LET F == Facts
       IN  NoSharedToken(F) /\ F.tokens = << >>
    /\ chat_response = DefaultReply

\* C6: get_response returns one of the canned responses of the intent chosen
\* by match_intent for the input, or the fixed default reply, and never a
\* response listed under a different intent.
C6_ResponseOfChosenIntent ==
    Answered =>
        LET chosen == match_intent(chat_input, punkt_ok)
        IN  /\ \/ chat_response = DefaultReply
               \/ /\ chosen \in IntentNames
                  /\ chat_response \in Range(Intents[IntentIndex(chosen)].responses)
            /\ \A i \in 1..Len(Intents) :
                  Intents[i].name # chosen
                      => chat_response \notin Range(Intents[i].responses)

\* the third canned response of a matched intent that is not the first of the table
C6_Witness ==
    /\ Answered
    /\ chat_intent \in IntentNames
    /\ IntentIndex(chat_intent) > 1
    /\ chat_response = Intents[IntentIndex(chat_intent)].responses[3]

SampleStations ==
  << [ station_id |-> "US001", latitude |-> 340522, longitude |-> -1182437, country |-> "USA",
       power_kw |-> 1500, availability |-> "Available", pricing |-> 28, rating |-> 45 ],
     [ station_id |-> "US002", latitude |-> 377749, longitude |-> -1224194, country |-> "USA",
       power_kw |-> 72, availability |-> "Available", pricing |-> 15, rating |-> 42 ],
     [ station_id |-> "US003", latitude |-> 476062, longitude |-> -1223321, country |-> "USA",
       power_kw |-> 1000, availability |-> "In Use", pricing |-> 32, rating |-> 40 ],
     [ station_id |-> "UK001", latitude |-> 515074, longitude |-> -1278, country |-> "UK",
       power_kw |-> 1200, availability |-> "Available", pricing |-> 35, rating |-> 43 ],
     [ station_id |-> "UK002", latitude |-> 534808, longitude |-> -22426, country |-> "UK",
       power_kw |-> 3500, availability |-> "Available", pricing |-> 69, rating |-> 47 ],
     [ station_id |-> "DE001", latitude |-> 525200, longitude |-> 134050, country |-> "Germany",
       power_kw |-> 1500, availability |-> "Available", pricing |-> 45, rating |-> 44 ],
     [ station_id |-> "IN001", latitude |-> 129716, longitude |-> 775946, country |-> "India",
       power_kw |-> 600, availability |-> "Available", pricing |-> 10, rating |-> 41 ],
     [ station_id |-> "IN002", latitude |-> 287041, longitude |-> 771025, country |-> "India",
       power_kw |-> 500, availability |-> "Available", pricing |-> 8, rating |-> 43 ],
     [ station_id |-> "IN003", latitude |-> 190760, longitude |-> 728777, country |-> "India",
       power_kw |-> 500, availability |-> "In Use", pricing |-> 9, rating |-> 40 ],
     [ station_id |-> "IN004", latitude |-> 173850, longitude |-> 784867, country |-> "India",
       power_kw |-> 72, availability |-> "Available", pricing |-> 6, rating |-> 39 ],
     [ station_id |-> "IN005", latitude |-> 130827, longitude |-> 802707, country |-> "India",
       power_kw |-> 600, availability |-> "Available", pricing |-> 10, rating |-> 42 ],
     [ station_id |-> "IN006", latitude |-> 185204, longitude |-> 738567, country |-> "India",
       power_kw |-> 500, availability |-> "Available", pricing |-> 9, rating |-> 44 ],
     [ station_id |-> "IN007", latitude |-> 225726, longitude |-> 883639, country |-> "India",
       power_kw |-> 72, availability |-> "Maintenance", pricing |-> 7, rating |-> 38 ],
     [ station_id |-> "IN008", latitude |-> 269124, longitude |-> 757873, country |-> "India",
       power_kw |-> 600, availability |-> "Available", pricing |-> 8, rating |-> 41 ] >>
-----------------------------------------------------------------------------
(* utils/data_processor.py: distances *)
(* Coordinates are whole degrees; distances are integers: geodesic lengths  *)
(* in thousandths of a km, values rounded to 2 decimals in hundredths.      *)

\* the bounded latitudes and longitudes: 0..GridMax degrees
GridMax == 2

\* a coordinate argument: a number, a non-numeric text, or None
Coord(v) == [ kind |-> "num", v |-> v ]
TextCoord == [ kind |-> "text", v |-> 0 ]
NoCoord == [ kind |-> "none", v |-> 0 ]

\* geopy reads a missing latitude or longitude as 0.0 (float(x or 0.0))
CoordValue(c) == IF c.kind = "num" THEN c.v ELSE 0

\* geopy's Point((lat, lon)) raises: a text that is no number, a number with
\* the longitude missing, a latitude outside [-90, 90]
PointRaises(lat, lon) ==
    \/ lat.kind = "text"
    \/ lon.kind = "text"
    \/ lat.kind = "num" /\ lon.kind = "none"
    \/ lat.kind = "num" /\ (lat.v > 90 \/ lat.v < 0 - 90)

\* ceiling of 1000 * sqrt(n), for the squared coordinate differences of the grid
CeilSqrt1000 ==
    [ n \in 0..(2 * (GridMax + 1) * (GridMax + 1)) |->
        CHOOSE r \in 0..(1000 * (n + 1)) :
            /\ r * r >= 1000000 * n
            /\ (r = 0 \/ (r - 1) * (r - 1) < 1000000 * n) ]

\* geodesic((lat1, lon1), (lat2, lon2)).kilometers in thousandths of a km, for
\* numbers, at 111 km to the degree: a metric on the grid (symmetric, 0 exactly
\* between equal points, triangle inequality), as the ellipsoidal distance is
geodesic(lat1, lon1, lat2, lon2) ==
    111 * CeilSqrt1000[(lat1 - lat2) * (lat1 - lat2) + (lon1 - lon2) * (lon1 - lon2)]

\* round(x, 2) of a length in thousandths: hundredths of a km
Round2(thousandths) == RoundHalfEven(thousandths, 10)

\* mutant: the exception leaves calculate_distance
ExceptReturn_Reraised == [ state |-> "raised", value |-> NoneValue ]

\* data_processor.py:25-26 what the bare except clause makes of an exception
ExceptReturn == [ state |-> "returned", value |-> NoneValue ]

\* EVDataProcessor.calculate_distance
calculate_distance(lat1, lon1, lat2, lon2) ==
    IF PointRaises(lat1, lon1) \/ PointRaises(lat2, lon2)
    THEN ExceptReturn
    ELSE [ state |-> "returned",
           value |-> Num(Round2(geodesic(CoordValue(lat1), CoordValue(lon1),
                                         CoordValue(lat2), CoordValue(lon2)))) ]

\* data_processor.py:28 the default of speed_kmh
DefaultSpeedKmh == 60

\* EVDataProcessor.calculate_estimated_time: minutes, in hundredths
calculate_estimated_time(distance_km, speed_kmh) ==
    IF distance_km.is_none \/ distance_km.v = 0
    THEN 0
    ELSE RoundHalfEven(distance_km.v * 60, speed_kmh)

\* the bounded coordinate arguments, malformed ones included
LongitudeInputs == { Coord(v) : v \in 0..GridMax } \cup { TextCoord, NoCoord }
LatitudeInputs == LongitudeInputs \cup { Coord(91) }

InitDist ==
    /\ dist_args \in LatitudeInputs \X LongitudeInputs \X LatitudeInputs \X LongitudeInputs
    /\ dist_out = [ state |-> "idle", value |-> NoneValue ]
    /\ time_out = [ state |-> "idle", v |-> 0 ]
    /\ ChatIdle /\ ScoreIdle /\ RouteIdle /\ OthersIdle

CallCalculateDistance ==
    /\ dist_out.state = "idle"
    /\ dist_out' = calculate_distance(dist_args[1], dist_args[2], dist_args[3], dist_args[4])
    /\ UNCHANGED <<dist_args, time_out>>
    /\ UNCHANGED <<chat_vars, score_vars, route_vars, other_vars>>

\* data_processor.py:49-51 the distance just computed is handed to
\* calculate_estimated_time with the default speed
CallCalculateEstimatedTime ==
    /\ dist_out.state = "returned"
    /\ time_out.state = "idle"
    /\ time_out' = [ state |-> "returned",
                     v |-> calculate_estimated_time(dist_out.value, DefaultSpeedKmh) ]
    /\ UNCHANGED <<dist_args, dist_out>>
    /\ UNCHANGED <<chat_vars, score_vars, route_vars, other_vars>>

NextDist == CallCalculateDistance \/ CallCalculateEstimatedTime

SpecDist == InitDist /\ [][NextDist]_vars

-----------------------------------------------------------------------------
(* Claims about calculate_distance, checked under SpecDist *)

\* C10: calculate_distance never raises; for any arguments, malformed ones
\* included, it returns a non-negative distance or None, and calculate_estimated_time
\* turns a None distance into an estimated time of 0.
C10_DistanceNeverRaises ==
    /\ dist_out.state \in { "idle", "returned" }
    /\ dist_out.state = "returned" =>
          (dist_out.value.is_none \/ dist_out.value.v >= 0)
    /\ (dist_out.state = "returned" /\ dist_out.value.is_none /\ time_out.state = "returned")
          => time_out.v = 0
    /\ (dist_out.state = "returned"
          /\ \/ PointRaises(dist_args[1], dist_args[2])
             \/ PointRaises(dist_args[3], dist_args[4]))
          => dist_out.value.is_none

\* a call with an out-of-range latitude returned None and the time came out 0
C10_Witness ==
    /\ dist_args[1] = Coord(91)
    /\ dist_args[2].kind = "num" /\ dist_args[3].kind = "num" /\ dist_args[4].kind = "num"
    /\ dist_out.state = "returned"
    /\ dist_out.value.is_none
    /\ time_out.state = "returned"
    /\ time_out.v = 0

-----------------------------------------------------------------------------
(* utils/data_processor.py: station score *)
(* Row fields are integers: power_kw in tenths of a kW, pricing in          *)
(* hundredths, rating in tenths, distance_km in hundredths of a km.  The    *)
(* component scores are kept in 1/300 of a point (100 points are 30000) so *)
(* that power_kw / 150 * 100 is exact.                                      *)

\* data_processor.py:100; without a distance_km column row.get gives 0
distance_score(row, has_distance) ==
    LET distance_km == IF has_distance THEN row.distance_km ELSE 0
    IN  Max2(0, 30000 - 6 * distance_km)

\* mutant: the cap at 100 forgotten
power_score_Unclamped(row) == 20 * row.power_kw

\* data_processor.py:102
power_score(row) == Min2(30000, 20 * row.power_kw)

\* data_processor.py:104
rating_score(row) == 600 * row.rating

\* mutant: a station that is not Available scores 0 for availability
availability_score_ZeroElse(row) ==
    IF row.availability = "Available" THEN 30000 ELSE 0

\* data_processor.py:106
availability_score(row) ==
    IF row.availability = "Available" THEN 30000 ELSE 6000

\* data_processor.py:108
pricing_score(row) == Max2(0, 30000 - 300 * row.pricing)

\* data_processor.py:110-116 the weighted sum, in 1/3000
total_score(row, has_distance) ==
    distance_score(row, has_distance) * 3 +
    power_score(row) * 2 +
    rating_score(row) * 2 +
    availability_score(row) * 2 +
    pricing_score(row) * 1

\* EVDataProcessor.calculate_station_score: round(total_score, 2), in hundredths
calculate_station_score(row, has_distance) ==
    RoundHalfEven(total_score(row, has_distance), 30)

\* rows beyond the sample data: the ends of the ranges of power, pricing and rating
ExtremeRows ==
  << [ station_id |-> "XX001", latitude |-> 0, longitude |-> 0, country |-> "None",
       power_kw |-> 0, availability |-> "Maintenance", pricing |-> 0, rating |-> 0 ],
     [ station_id |-> "XX002", latitude |-> 0, longitude |-> 0, country |-> "None",
       power_kw |-> 3500, availability |-> "Available", pricing |-> 0, rating |-> 50 ],
     [ station_id |-> "XX003", latitude |-> 0, longitude |-> 0, country |-> "None",
       power_kw |-> 1499, availability |-> "In Use", pricing |-> 150, rating |-> 50 ] >>

RowPool == SampleStations \o ExtremeRows

\* distances in hundredths of a km: 0, 12.34, 50.01 and 20004 km
DistanceSamples == { 0, 1234, 5001, 2000400 }

\* the tables handed to rank_stations hold at most MaxRows rows
MaxRows == 2

\* strictly increasing index sequences into RowPool
RowChoices ==
    UNION { { s \in [1..n -> 1..Len(RowPool)] : \A i \in 1..(n - 1) : s[i] < s[i + 1] } :
              n \in 0..MaxRows }

WithDistance(row, d) ==
    [ station_id |-> row.station_id, power_kw |-> row.power_kw,
      availability |-> row.availability, pricing |-> row.pricing,
      rating |-> row.rating, distance_km |-> d ]

\* the distance_km columns for the chosen rows: one sampled distance per row,
\* or none at all (the score then reads row.get('distance_km', 0))
DistanceColumns(s, has_distance) ==
    IF has_distance
    THEN [1..Len(s) -> DistanceSamples]
    ELSE { [ i \in 1..Len(s) |-> 0 ] }

\* the table of the chosen rows with the chosen distances
ScoreTable(s, has_distance, d) ==
    [ has_distance |-> has_distance,
      rows |-> [ i \in 1..Len(s) |-> WithDistance(RowPool[s[i]], d[i]) ] ]

\* data_processor.py:125 the station_score column
WithScore(row, has_distance) ==
    [ station_id |-> row.station_id, power_kw |-> row.power_kw,
      availability |-> row.availability, pricing |-> row.pricing,
      rating |-> row.rating, distance_km |-> row.distance_km,
      station_score |-> calculate_station_score(row, has_distance) ]

\* mutant: the sort by station_score left out
SortedByScore_Unsorted(rows) == { rows }

\* data_processor.py:126 sort_values(ascending=False): the orders of the rows
\* with non-increasing station_score (rows of equal score in either order)
SortedByScore(rows) ==
    { [ i \in 1..Len(rows) |-> rows[p[i]] ] :
        p \in { q \in [1..Len(rows) -> 1..Len(rows)] :
                  /\ \A i, j \in 1..Len(rows) : i # j => q[i] # q[j]
                  /\ \A i \in 1..(Len(rows) - 1) :
                        rows[q[i]].station_score >= rows[q[i + 1]].station_score } }

InitScore ==
    /\ \E s \in RowChoices, has_distance \in BOOLEAN :
          \E d \in DistanceColumns(s, has_distance) :
             score_df = ScoreTable(s, has_distance, d)
    /\ ranked = [ done |-> FALSE, rows |-> << >> ]
    /\ nearest = [ state |-> "idle" ]
    /\ ChatIdle /\ DistIdle /\ RouteIdle /\ OthersIdle

\* EVDataProcessor.rank_stations(score_df)
rank_stations ==
    /\ ~ranked.done
    /\ LET df == [ i \in 1..Len(score_df.rows) |->
                     WithScore(score_df.rows[i], score_df.has_distance) ]
       IN  \E sorted \in SortedByScore(df) :
              ranked' = [ done |-> TRUE, rows |-> sorted ]
    /\ UNCHANGED <<score_df, nearest>>
    /\ UNCHANGED <<chat_vars, dist_vars, route_vars, other_vars>>

NextScore == rank_stations

SpecScore == InitScore /\ [][NextScore]_vars

-----------------------------------------------------------------------------
(* Claims about the station score, checked under SpecScore *)

\* the five component scores of the claim, in 1/15000 of a point
StatedD(row) ==
    LET d == IF score_df.has_distance THEN row.distance_km ELSE 0
    IN  IF 2 * d >= 10000 THEN 0 ELSE 150 * (10000 - 2 * d)
StatedP(row) == IF row.power_kw >= 1500 THEN 1500000 ELSE 1000 * row.power_kw
StatedR(row) == 30000 * row.rating
StatedA(row) == IF row.availability = "Available" THEN 1500000 ELSE 300000
StatedC(row) == IF row.pricing >= 100 THEN 0 ELSE 15000 * (100 - row.pricing)

\* C1: for every row, calculate_station_score returns
\* 0.30*D + 0.20*P + 0.20*R + 0.20*A + 0.10*C rounded to 2 decimals, with
\* D = max(0, 100 - 2*distance_km) (distance 0 without a distance_km),
\* P = min(100, power_kw/150*100), R = rating/5*100, A = 100 if Available
\* else 20, C = max(0, 100 - 100*pricing).
C1_ScoreFormula ==
    ranked.done =>
        \A i \in 1..Len(ranked.rows) :
            LET row == ranked.rows[i]
            IN  row.station_score =
                    RoundHalfEven(30 * StatedD(row) + 20 * StatedP(row) + 20 * StatedR(row)
                                    + 20 * StatedA(row) + 10 * StatedC(row),
                                  15000)

\* a table without distance_km was scored, one row of it not Available
C1_Witness ==
    /\ ranked.done
    /\ ~score_df.has_distance
    /\ \E i \in 1..Len(ranked.rows) :
          /\ ranked.rows[i].availability = "Maintenance"
          /\ ranked.rows[i].station_id = "IN007"
          /\ ranked.rows[i].station_score = 5946

SampleIds == { SampleStations[i].station_id : i \in 1..Len(SampleStations) }

\* C2: the station_score computed by rank_stations lies in [0, 100], for every
\* station of the sample data at every distance and for every row with
\* distance_km >= 0, power_kw >= 0, pricing >= 0 and rating in [0, 5].
C2_ScoreInRange ==
    ranked.done =>
        \A i \in 1..Len(ranked.rows) :
            LET row == ranked.rows[i]
            IN  (row.distance_km >= 0 /\ row.power_kw >= 0 /\ row.pricing >= 0
                   /\ row.rating >= 0 /\ row.rating <= 50)
                    => (row.station_score >= 0 /\ row.station_score <= 10000)

\* the 350 kW sample station was scored far away, and a row reached 100
C2_Witness ==
    /\ ranked.done
    /\ score_df.has_distance
    /\ \E i \in 1..Len(ranked.rows) :
          /\ ranked.rows[i].station_id = "UK002"
          /\ ranked.rows[i].distance_km = 2000400
    /\ \E i \in 1..Len(ranked.rows) : ranked.rows[i].station_score = 10000

-----------------------------------------------------------------------------
(* utils/route_optimizer.py *)
(* self.graph is [nodes, attrs, weight]: the node ids in insertion order,   *)
(* each node's coordinates, and the weight of each edge {a, b}.             *)

UserNode == "USER"

\* networkx Graph.add_node: a new id goes last, a known id keeps its place
AddNode(g, id, lat, lon) ==
    [ nodes |-> IF id \in Range(g.nodes) THEN g.nodes ELSE Append(g.nodes, id),
      attrs |-> (id :> [ latitude |-> lat, longitude |-> lon ]) @@ g.attrs,
      weight |-> g.weight ]

\* mutant: the graph of the earlier call is kept
ClearedGraph_Kept(g) == g

\* route_optimizer.py:17 self.graph.clear()
ClearedGraph(g) == EmptyGraph

\* route_optimizer.py:25-33 one add_node per row
RECURSIVE AddStationNodes(_, _, _)
AddStationNodes(g, stations_df, i) ==
    IF i > Len(stations_df) THEN g
    ELSE AddStationNodes(AddNode(g, stations_df[i].station_id,
                                 stations_df[i].latitude, stations_df[i].longitude),
                         stations_df, i + 1)

\* mutant: only nodes next to each other in insertion order are joined
WithAllEdges_Chain(g) ==
    [ nodes |-> g.nodes,
      attrs |-> g.attrs,
      weight |->
        [ e \in { { g.nodes[i], g.nodes[i + 1] } : i \in 1..(Len(g.nodes) - 1) } |->
            LET node1 == CHOOSE a \in e : TRUE
                node2 == CHOOSE b \in e : b # node1
            IN  geodesic(g.attrs[node1].latitude, g.attrs[node1].longitude,
                         g.attrs[node2].latitude, g.attrs[node2].longitude) ] ]

\* route_optimizer.py:35-45 an edge for every ordered pair of distinct nodes
\* (the second add_edge of a pair overwrites the weight with the same distance)
WithAllEdges(g) ==
    [ nodes |-> g.nodes,
      attrs |-> g.attrs,
      weight |->
        [ e \in { {a, b} : a, b \in Range(g.nodes) } \ { {a} : a \in Range(g.nodes) } |->
            LET node1 == CHOOSE a \in e : TRUE
                node2 == CHOOSE b \in e : b # node1
            IN  geodesic(g.attrs[node1].latitude, g.attrs[node1].longitude,
                         g.attrs[node2].latitude, g.attrs[node2].longitude) ] ]

\* RouteOptimizer.build_graph_from_stations
build_graph(g, stations_df, user_location) ==
    WithAllEdges(
        AddStationNodes(
            AddNode(ClearedGraph(g), UserNode, user_location[1], user_location[2]),
            stations_df, 1))

\* networkx adjacency of v, in insertion order
Neighbours(g, v) == SelectSeq(g.nodes, LAMBDA u : {u, v} \in DOMAIN g.weight)

\* networkx _dijkstra_multisource, the loop over the neighbours of v: a node
\* seen before is re-queued only for a strictly smaller distance
RECURSIVE Relax(_, _, _, _)
Relax(g, v, nbrs, st) ==
    IF nbrs = << >> THEN st
    ELSE LET u == Head(nbrs)
             vu_dist == st.dist[v] + g.weight[{u, v}]
         IN  IF u \in DOMAIN st.dist
             THEN Relax(g, v, Tail(nbrs), st)
             ELSE IF u \notin DOMAIN st.seen \/ vu_dist < st.seen[u]
             THEN Relax(g, v, Tail(nbrs),
                        [ dist |-> st.dist,
                          seen |-> (u :> vu_dist) @@ st.seen,
                          paths |-> (u :> Append(st.paths[v], u)) @@ st.paths,
                          fringe |-> st.fringe \cup { <<vu_dist, st.count, u>> },
                          count |-> st.count + 1 ])
             ELSE Relax(g, v, Tail(nbrs), st)

\* networkx _dijkstra_multisource, the loop popping the heap of
\* (distance, insertion count, node)
RECURSIVE DijkstraLoop(_, _, _)
DijkstraLoop(g, target, st) ==
    IF st.fringe = {} THEN st
    ELSE LET top == CHOOSE e \in st.fringe :
                       \A f \in st.fringe :
                           e[1] < f[1] \/ (e[1] = f[1] /\ e[2] <= f[2])
             v == top[3]
             rest == st.fringe \ { top }
         IN  IF v \in DOMAIN st.dist
             THEN DijkstraLoop(g, target, [ st EXCEPT !.fringe = rest ])
             ELSE LET st1 == [ dist |-> (v :> top[1]) @@ st.dist,
                               seen |-> st.seen,
                               paths |-> st.paths,
                               fringe |-> rest,
                               count |-> st.count ]
                  IN  IF v = target THEN st1
                      ELSE DijkstraLoop(g, target, Relax(g, v, Neighbours(g, v), st1))

\* networkx single_source_dijkstra(G, source, target), source a node of G
Dijkstra(g, source, target) ==
    DijkstraLoop(g, target,
                 [ dist |-> << >>,
                   seen |-> (source :> 0),
                   paths |-> (source :> << source >>),
                   fringe |-> { <<0, 0, source>> },
                   count |-> 1 ])

PathResult(path, path_length) ==
    [ outcome |-> "path",
      path |-> path,
      distance_km |-> Round2(path_length),
      estimated_time_min |-> Round2((path_length * 60) \div 60) ]

\* route_optimizer.py:62-63 the one exception find_shortest_path catches
NoPathReturn == [ outcome |-> "None" ]

\* networkx raises NodeNotFound for a source that is no node: not caught
NodeNotFoundRaised == [ outcome |-> "raised" ]

\* RouteOptimizer.find_shortest_path: the outcomes a call can have.  For
\* start = end not in the graph networkx either answers the trivial path
\* (releases that test target-in-sources first) or raises NodeNotFound.
find_shortest_path(g, start_node, end_node) ==
    IF start_node \notin Range(g.nodes)
    THEN IF start_node = end_node
         THEN { NodeNotFoundRaised, PathResult(<< start_node >>, 0) }
         ELSE { NodeNotFoundRaised }
    ELSE IF start_node = end_node
    THEN { PathResult(<< start_node >>, 0) }
    ELSE LET st == Dijkstra(g, start_node, end_node)
         IN  IF end_node \in DOMAIN st.dist
             THEN { PathResult(st.paths[end_node], st.dist[end_node]) }
             ELSE { NoPathReturn }

\* the bounded inputs: tables over StationIds in this order, any subset of
\* them, each station at one of Points; ids asked of find_shortest_path
StationIds == << "US001", "IN001" >>
UnknownId == "ZZ999"
Points == { <<0, 0>>, <<0, 1>>, <<0, 2>>, <<1, 0>> }

StationChoices ==
    UNION { { s \in [1..n -> 1..Len(StationIds)] : \A i \in 1..(n - 1) : s[i] < s[i + 1] } :
              n \in 0..Len(StationIds) }

StationTables ==
    UNION { { [ i \in 1..Len(s) |->
                  [ station_id |-> StationIds[s[i]],
                    latitude |-> p[i][1], longitude |-> p[i][2] ] ] :
              p \in [1..Len(s) -> Points] } :
            s \in StationChoices }

AskedIds == { UserNode, UnknownId } \cup Range(StationIds)

TableIds(stations_df) == { stations_df[i].station_id : i \in 1..Len(stations_df) }

InitRoute ==
    /\ RouteIdle
    /\ ChatIdle /\ DistIdle /\ ScoreIdle /\ OthersIdle

CallBuildGraph ==
    \E stations_df \in StationTables, user_location \in Points :
        /\ graph' = build_graph(graph, stations_df, user_location)
        /\ built' = [ done |-> TRUE, stations_df |-> stations_df,
                      user_location |-> user_location,
                      stale |-> ~(Range(graph.nodes) \subseteq
                                    ({ UserNode } \cup TableIds(stations_df))) ]
        /\ sp_out' = [ outcome |-> "idle" ]
        /\ UNCHANGED <<chat_vars, dist_vars, score_vars, other_vars>>

CallFindShortestPath ==
    \E start_node \in AskedIds, end_node \in AskedIds :
        /\ sp_out' \in { [ r EXCEPT !.outcome = r.outcome ] @@
                           [ start_node |-> start_node, end_node |-> end_node ] :
                         r \in find_shortest_path(graph, start_node, end_node) }
        /\ UNCHANGED <<graph, built>>
        /\ UNCHANGED <<chat_vars, dist_vars, score_vars, other_vars>>

NextRoute == CallBuildGraph \/ CallFindShortestPath

SpecRoute == InitRoute /\ [][NextRoute]_vars

-----------------------------------------------------------------------------
(* Claims about the route optimizer, checked under SpecRoute *)

RowOf(stations_df, id) ==
    stations_df[CHOOSE i \in 1..Len(stations_df) :
                    /\ stations_df[i].station_id = id
                    /\ \A j \in 1..Len(stations_df) :
                          stations_df[j].station_id = id => j <= i]

\* C7: after build_graph_from_stations(stations, user_location) the node set is
\* exactly 'USER' plus the station_id of each row of this call, nothing is left
\* over from an earlier call, and every pair of distinct nodes is joined by an
\* edge weighted with the geodesic distance between the two nodes' coordinates.
C7_GraphIsCompleteOverThisCall ==
    built.done =>
        /\ Range(graph.nodes) = { UserNode } \cup TableIds(built.stations_df)
        /\ DOMAIN graph.attrs = Range(graph.nodes)
        /\ graph.attrs[UserNode] =
              [ latitude |-> built.user_location[1], longitude |-> built.user_location[2] ]
        /\ \A id \in TableIds(built.stations_df) :
              graph.attrs[id] =
                 [ latitude |-> RowOf(built.stations_df, id).latitude,
                   longitude |-> RowOf(built.stations_df, id).longitude ]
        /\ \A a, b \in Range(graph.nodes) :
              a # b =>
                 /\ {a, b} \in DOMAIN graph.weight
                 /\ graph.weight[{a, b}] =
                       geodesic(graph.attrs[a].latitude, graph.attrs[a].longitude,
                                graph.attrs[b].latitude, graph.attrs[b].longitude)
        /\ \A e \in DOMAIN graph.weight :
              e \subseteq Range(graph.nodes) /\ Cardinality(e) = 2

\* a build over a graph that held a station this call's table does not name
C7_Witness ==
    /\ built.done
    /\ built.stale
    /\ Len(built.stations_df) = 1
    /\ Len(graph.nodes) = 2

StationNodes == Range(graph.nodes) \ { UserNode }

C9_NoRouteReturnsNone ==
    sp_out.outcome # "idle" =>
        /\ sp_out.outcome # "raised"
        /\ (sp_out.start_node \notin Range(graph.nodes)
              \/ sp_out.end_node \notin Range(graph.nodes))
              => sp_out.outcome \in { "None", "path" }

-----------------------------------------------------------------------------
(* models/recommendation_model.py: StationRecommendationModel               *)
(* A feature is an integer in a unit of its own: degrees for latitude and   *)
(* longitude, 50 kW for power_kw, 0.25 for pricing, 0.5 for rating, 50 km   *)
(* for distance_km. StandardScaler divides every feature by its standard    *)
(* deviation, so the order of the neighbours does not depend on the units;  *)
(* a feature that is constant over the fitted table keeps scale 1 and adds  *)
(* the same amount to the distance of every row.                            *)

\* the six feature columns
FeatureIndex == 1..6

\* recommendation_model.py:22-29 latitude, longitude, power_kw, pricing,
\* rating, and distance_km = 0 for a table without that column
prepare_features(stations_df) ==
    [ i \in 1..Len(stations_df) |->
        << stations_df[i].latitude, stations_df[i].longitude, stations_df[i].power_kw,
           stations_df[i].pricing, stations_df[i].rating, 0 >> ]

\* recommendation_model.py:53-60 the defaults 100 kW, 0.5, 4.0 and 50 km
user_feature_vector(user_preferences) ==
    << user_preferences.latitude, user_preferences.longitude, 2, 2, 8, 1 >>

RECURSIVE ColumnSum(_, _, _)
ColumnSum(fit, f, i) ==
    IF i = 0 THEN 0 ELSE fit[i][f] + ColumnSum(fit, f, i - 1)

RECURSIVE ColumnSquares(_, _, _)
ColumnSquares(fit, f, i) ==
    IF i = 0 THEN 0 ELSE fit[i][f] * fit[i][f] + ColumnSquares(fit, f, i - 1)

\* StandardScaler.fit: n * n * var_ of column f
ScaledVariance(fit, f) ==
    Len(fit) * ColumnSquares(fit, f, Len(fit))
        - ColumnSum(fit, f, Len(fit)) * ColumnSum(fit, f, Len(fit))

\* StandardScaler: 1 / scale_[f]^2 as a fraction; scale_ is 1 for a column of
\* zero variance
InverseScale2(fit, f) ==
    IF ScaledVariance(fit, f) = 0
    THEN [ num |-> 1, den |-> 1 ]
    ELSE [ num |-> Len(fit) * Len(fit), den |-> ScaledVariance(fit, f) ]

RECURSIVE CommonDen(_, _)
CommonDen(fit, f) ==
    IF f = 0 THEN 1 ELSE InverseScale2(fit, f).den * CommonDen(fit, f - 1)

RECURSIVE ScaledTerms(_, _, _, _, _)
ScaledTerms(fit, user, i, den, f) ==
    IF f = 0 THEN 0
    ELSE (user[f] - fit[i][f]) * (user[f] - fit[i][f])
             * InverseScale2(fit, f).num * (den \div InverseScale2(fit, f).den)
         + ScaledTerms(fit, user, i, den, f - 1)

\* the squared euclidean distance between the scaled user vector and the
\* scaled row i of the fitted table, times the common denominator CommonDen
ScaledDistance2(fit, user, i) ==
    ScaledTerms(fit, user, i, CommonDen(fit, 6), 6)

\* NearestNeighbors.kneighbors(user, n_neighbors = n) on the fitted table: the
\* index rows it can return, nearest first, rows at equal distance in any order
kneighbors(fit, user, n) ==
    LET d == [ i \in 1..Len(fit) |-> ScaledDistance2(fit, user, i) ]
    IN  { idx \in [1..n -> 1..Len(fit)] :
            /\ \A i, j \in 1..n : i < j => idx[i] # idx[j] /\ d[idx[i]] <= d[idx[j]]
            /\ \A m \in 1..Len(fit) :
                  (\A i \in 1..n : idx[i] # m) => d[m] >= d[idx[n]] }

\* recommendation_model.py:39-42 fit_transform and fit
Fitted(stations_df) == [ is_trained |-> TRUE, fit |-> prepare_features(stations_df) ]

\* recommendation_model.py:50-51 training happens only while is_trained is False
TrainedFor(model, stations_df) ==
    IF model.is_trained THEN model ELSE Fitted(stations_df)

\* StationRecommendationModel.recommend_stations_knn: the outcomes
\* [knn, state, indices, rows] of a call on the model
recommend_stations_knn(model, user_preferences, stations_df, n_recommendations) ==
    IF ~model.is_trained /\ Len(stations_df) = 0
    THEN \* StandardScaler.fit_transform raises on a table without rows
         { [ knn |-> model, state |-> "raised", indices |-> << >>, rows |-> << >> ] }
    ELSE
    LET trained == TrainedFor(model, stations_df)
    IN  IF n_recommendations > Len(trained.fit)
        THEN \* kneighbors raises: n_neighbors > n_samples_fit
             { [ knn |-> trained, state |-> "raised", indices |-> << >>, rows |-> << >> ] }
        ELSE { IF \E i \in 1..n_recommendations : idx[i] > Len(stations_df)
               THEN \* stations_df.iloc raises IndexError
                    [ knn |-> trained, state |-> "raised", indices |-> idx, rows |-> << >> ]
               ELSE [ knn |-> trained, state |-> "returned", indices |-> idx,
                      rows |-> [ i \in 1..n_recommendations |-> stations_df[idx[i]] ] ] :
               idx \in kneighbors(trained.fit, user_feature_vector(user_preferences),
                                  n_recommendations) }

\* the bounded station rows, in feature units
RecRows ==
    { [ station_id |-> "US001", latitude |-> 0, longitude |-> 0,
        power_kw |-> 3, pricing |-> 1, rating |-> 9 ],
      [ station_id |-> "IN001", latitude |-> 2, longitude |-> 1,
        power_kw |-> 1, pricing |-> 0, rating |-> 9 ],
      [ station_id |-> "IN002", latitude |-> 1, longitude |-> 2,
        power_kw |-> 2, pricing |-> 0, rating |-> 8 ] }

\* tables of distinct rows in any order, the empty table included
RecTables ==
    UNION { { t \in [1..n -> RecRows] : \A i, j \in 1..n : i # j => t[i] # t[j] } :
              n \in 0..Cardinality(RecRows) }

RecPreferences ==
    { [ latitude |-> p[1], longitude |-> p[2] ] : p \in { <<0, 0>>, <<2, 2>> } }

\* n_recommendations
RecCounts == { 1, 2 }

InitRec ==
    /\ RecIdle
    /\ ChatIdle /\ DistIdle /\ ScoreIdle /\ RouteIdle
    /\ TripIdle /\ DataIdle /\ FinderIdle /\ UiIdle /\ SessIdle

\* StationRecommendationModel.train_knn_model(stations_df)
CallTrainKnn ==
    /\ \E stations_df \in RecTables :
          /\ Len(stations_df) > 0
          /\ knn' = Fitted(stations_df)
    /\ rec_out' = [ state |-> "idle" ]
    /\ UNCHANGED pref
    /\ UNCHANGED <<chat_vars, dist_vars, score_vars, route_vars>>
    /\ UNCHANGED <<trip_vars, data_vars, finder_vars, ui_vars, sess_vars>>

\* StationRecommendationModel.recommend_stations_knn(user_preferences, stations_df, n)
CallRecommendStationsKnn ==
    /\ \E stations_df \in RecTables, user_preferences \in RecPreferences, n \in RecCounts :
          \E r \in recommend_stations_knn(knn, user_preferences, stations_df, n) :
             /\ knn' = r.knn
             /\ rec_out' = [ state |-> r.state, indices |-> r.indices, rows |-> r.rows,
                             stations_df |-> stations_df,
                             user_preferences |-> user_preferences,
                             n_recommendations |-> n ]
    /\ UNCHANGED pref
    /\ UNCHANGED <<chat_vars, dist_vars, score_vars, route_vars>>
    /\ UNCHANGED <<trip_vars, data_vars, finder_vars, ui_vars, sess_vars>>

NextRec == CallTrainKnn \/ CallRecommendStationsKnn

SpecRec == InitRec /\ [][NextRec]_vars

(* Claims about recommend_stations_knn *)

\* C11: every call of recommend_stations_knn re-fits the scaler and the
\* nearest-neighbour model on the table passed to that call: after a call the
\* fitted table is the call's table, the rows returned are the nearest
\* neighbours within that table, and the call raises only when that table has
\* fewer rows than were asked for.
C11_RefitOnEveryCall ==
    rec_out.state # "idle" =>
        /\ (Len(rec_out.stations_df) > 0 => knn.fit = prepare_features(rec_out.stations_df))
        /\ rec_out.state = "returned" =>
              rec_out.indices \in kneighbors(prepare_features(rec_out.stations_df),
                                             user_feature_vector(rec_out.user_preferences),
                                             rec_out.n_recommendations)
        /\ rec_out.state = "raised" =>
              rec_out.n_recommendations > Len(rec_out.stations_df)

-----------------------------------------------------------------------------
(* utils/route_optimizer.py: find_optimal_station, calculate_multi_stop_route *)

\* the one outcome of a find_shortest_path between two nodes of the graph
OnlyOutcome(outcomes) == CHOOSE r \in outcomes : TRUE

\* route_optimizer.py:71-73 best_station = None, best_distance = inf,
\* best_path_info = None
NoBest ==
    [ best_station |-> [ is_none |-> TRUE ],
      best_distance |-> [ inf |-> TRUE, v |-> 0 ],
      best_path_info |-> NoPathReturn ]

\* route_optimizer.py:76
IsAvailable(row) == row.availability = "Available"

\* mutant: a station at the same distance as the best so far replaces it
CloserThan_OrEqual(distance_km, best_distance) ==
    best_distance.inf \/ distance_km <= best_distance.v

\* route_optimizer.py:80 path_info['distance_km'] < best_distance
CloserThan(distance_km, best_distance) ==
    best_distance.inf \/ distance_km < best_distance.v

\* route_optimizer.py:75-83 the loop over the rows, from row i on
RECURSIVE OptimalLoop(_, _, _, _)
OptimalLoop(g, stations_df, i, best) ==
    IF i > Len(stations_df) THEN best
    ELSE IF ~IsAvailable(stations_df[i]) THEN OptimalLoop(g, stations_df, i + 1, best)
    ELSE LET path_info ==
                 OnlyOutcome(find_shortest_path(g, UserNode, stations_df[i].station_id))
         IN  IF path_info.outcome = "path"
                  /\ CloserThan(path_info.distance_km, best.best_distance)
             THEN OptimalLoop(g, stations_df, i + 1,
                              [ best_station |-> [ is_none |-> FALSE, row |-> stations_df[i] ],
                                best_distance |-> [ inf |-> FALSE, v |-> path_info.distance_km ],
                                best_path_info |-> path_info ])
             ELSE OptimalLoop(g, stations_df, i + 1, best)

\* RouteOptimizer.find_optimal_station: the graph it leaves and what it returns
find_optimal_station(g, user_location, stations_df) ==
    LET built_graph == build_graph(g, stations_df, user_location)
        best == OptimalLoop(built_graph, stations_df, 1, NoBest)
    IN  [ graph |-> built_graph,
          best_station |-> best.best_station,
          best_path_info |-> best.best_path_info ]

\* mutant: the availability filter is left out
AvailableStations_All(stations_df) == stations_df

\* route_optimizer.py:93 stations_df[stations_df['availability'] == 'Available']
AvailableStations(stations_df) == SelectSeq(stations_df, IsAvailable)

\* mutant: only the last leg is kept (total_distance = instead of +=)
RECURSIVE LegsTotal_LastLeg(_, _, _)
LegsTotal_LastLeg(g, route, i) ==
    IF i >= Len(route) THEN 0
    ELSE IF i = Len(route) - 1
    THEN LET path_info == OnlyOutcome(find_shortest_path(g, route[i], route[i + 1]))
         IN  IF path_info.outcome = "path" THEN path_info.distance_km ELSE 0
    ELSE LegsTotal_LastLeg(g, route, i + 1)

\* route_optimizer.py:103-106 the sum of the legs' distance_km, from leg i on
RECURSIVE LegsTotal(_, _, _)
LegsTotal(g, route, i) ==
    IF i >= Len(route) THEN 0
    ELSE LET path_info == OnlyOutcome(find_shortest_path(g, route[i], route[i + 1]))
         IN  (IF path_info.outcome = "path" THEN path_info.distance_km ELSE 0)
                 + LegsTotal(g, route, i + 1)

\* RouteOptimizer.calculate_multi_stop_route, for num_stops >= 0
calculate_multi_stop_route(g, user_location, stations_df, num_stops) ==
    LET built_graph == build_graph(g, stations_df, user_location)
        available_stations == AvailableStations(stations_df)
        stops == IF Len(available_stations) < num_stops
                 THEN Len(available_stations) ELSE num_stops
        station_ids == [ i \in 1..stops |-> available_stations[i].station_id ]
        route == << UserNode >> \o station_ids
        total_distance == LegsTotal(built_graph, route, 1)
    IN  [ graph |-> built_graph,
          route |-> route,
          total_distance_km |-> total_distance,
          estimated_time_min |-> (total_distance * 60) \div 60,
          num_stations |-> stops ]

\* the bounded inputs: tables over TripIds in this order, any subset of them,
\* each station at one of TripPoints and in one of the three states
TripIds == << "US001", "IN001", "IN002" >>
TripPoints == { <<0, 0>>, <<0, 1>>, <<1, 0>> }
Availabilities == { "Available", "In Use", "Maintenance" }
UserPoints == { <<0, 0>>, <<1, 1>> }
StopCounts == 0..3

TripChoices ==
    UNION { { s \in [1..n -> 1..Len(TripIds)] : \A i \in 1..(n - 1) : s[i] < s[i + 1] } :
              n \in 0..Len(TripIds) }

TripTable(s, p, a) ==
    [ i \in 1..Len(s) |->
        [ station_id |-> TripIds[s[i]], latitude |-> p[i][1], longitude |-> p[i][2],
          availability |-> a[i] ] ]

InitTrip ==
    /\ \E s \in TripChoices, user_location \in UserPoints, num_stops \in StopCounts :
          \E p \in [1..Len(s) -> TripPoints], a \in [1..Len(s) -> Availabilities] :
             trip_in = [ user_location |-> user_location,
                         stations_df |-> TripTable(s, p, a),
                         num_stops |-> num_stops ]
    /\ opt_out = [ state |-> "idle" ]
    /\ multi_out = [ state |-> "idle" ]
    /\ alt_out = [ state |-> "idle" ]
    /\ RouteIdle
    /\ ChatIdle /\ DistIdle /\ ScoreIdle
    /\ RecIdle /\ DataIdle /\ FinderIdle /\ UiIdle /\ SessIdle

\* optimizer.find_optimal_station(user_location, stations_df)
CallFindOptimalStation ==
    /\ opt_out.state = "idle"
    /\ LET r == find_optimal_station(graph, trip_in.user_location, trip_in.stations_df)
       IN  /\ graph' = r.graph
           /\ opt_out' = [ state |-> "returned", best_station |-> r.best_station,
                           best_path_info |-> r.best_path_info ]
    /\ built' = [ done |-> TRUE, stations_df |-> trip_in.stations_df,
                  user_location |-> trip_in.user_location,
                  stale |-> ~(Range(graph.nodes) \subseteq
                                ({ UserNode } \cup TableIds(trip_in.stations_df))) ]
    /\ UNCHANGED <<sp_out, trip_in, multi_out, alt_out>>
    /\ UNCHANGED <<chat_vars, dist_vars, score_vars>>
    /\ UNCHANGED <<rec_vars, data_vars, finder_vars, ui_vars, sess_vars>>

\* optimizer.calculate_multi_stop_route(user_location, stations_df, num_stops)
CallCalculateMultiStopRoute ==
    /\ multi_out.state = "idle"
    /\ LET r == calculate_multi_stop_route(graph, trip_in.user_location,
                                           trip_in.stations_df, trip_in.num_stops)
       IN  /\ graph' = r.graph
           /\ multi_out' = [ state |-> "returned", route |-> r.route,
                             total_distance_km |-> r.total_distance_km,
                             estimated_time_min |-> r.estimated_time_min,
                             num_stations |-> r.num_stations ]
    /\ built' = [ done |-> TRUE, stations_df |-> trip_in.stations_df,
                  user_location |-> trip_in.user_location,
                  stale |-> ~(Range(graph.nodes) \subseteq
                                ({ UserNode } \cup TableIds(trip_in.stations_df))) ]
    /\ UNCHANGED <<sp_out, trip_in, opt_out, alt_out>>
    /\ UNCHANGED <<chat_vars, dist_vars, score_vars>>
    /\ UNCHANGED <<rec_vars, data_vars, finder_vars, ui_vars, sess_vars>>

NextTrip == CallFindOptimalStation \/ CallCalculateMultiStopRoute

SpecTrip == InitTrip /\ [][NextTrip]_vars

(* Claims about the trips *)

\* the positions of the Available rows of the table
AvailableAt(stations_df) ==
    { i \in 1..Len(stations_df) : stations_df[i].availability = "Available" }

RouteKm(i) ==
    OnlyOutcome(find_shortest_path(graph, UserNode,
                                   trip_in.stations_df[i].station_id)).distance_km

\* C17: find_optimal_station returns an Available station whose shortest-path
\* distance from 'USER' is minimal among the Available stations of the input,
\* the first such row in input order on ties, with that station's path info;
\* never a station In Use or under Maintenance; (None, None) when the input
\* has no Available station.
C17_OptimalIsNearestAvailable ==
    opt_out.state = "returned" =>
        LET df == trip_in.stations_df
            at == AvailableAt(df)
        IN  IF at = {}
            THEN /\ opt_out.best_station.is_none
                 /\ opt_out.best_path_info.outcome = "None"
            ELSE /\ ~opt_out.best_station.is_none
                 /\ opt_out.best_station.row.availability = "Available"
                 /\ \E i \in at :
                       /\ opt_out.best_station.row = df[i]
                       /\ \A j \in at : RouteKm(i) <= RouteKm(j)
                       /\ \A j \in at : j < i => RouteKm(i) < RouteKm(j)
                       /\ opt_out.best_path_info.outcome = "path"
                       /\ opt_out.best_path_info.path = << UserNode, df[i].station_id >>
                       /\ opt_out.best_path_info.distance_km = RouteKm(i)

\* two Available stations at the same distance behind a nearer one In Use:
\* the first of the two is returned
C17_Witness ==
    /\ opt_out.state = "returned"
    /\ Len(trip_in.stations_df) = 3
    /\ trip_in.stations_df[1].availability = "In Use"
    /\ trip_in.stations_df[2].availability = "Available"
    /\ trip_in.stations_df[3].availability = "Available"
    /\ trip_in.user_location = <<0, 0>>
    /\ <<trip_in.stations_df[1].latitude, trip_in.stations_df[1].longitude>> = <<0, 0>>
    /\ <<trip_in.stations_df[2].latitude, trip_in.stations_df[2].longitude>> = <<0, 1>>
    /\ <<trip_in.stations_df[3].latitude, trip_in.stations_df[3].longitude>> = <<1, 0>>
    /\ ~opt_out.best_station.is_none
    /\ opt_out.best_station.row.station_id = "IN001"


-----------------------------------------------------------------------------
(* utils/route_optimizer.py: get_alternative_routes *)

\* the simple paths of the graph from source to target: no node twice, an
\* edge between neighbours
SimplePaths(g, source, target) ==
    { p \in UNION { [1..n -> Range(g.nodes)] : n \in 1..Len(g.nodes) } :
        /\ p[1] = source
        /\ p[Len(p)] = target
        /\ \A i, j \in 1..Len(p) : i # j => p[i] # p[j]
        /\ \A i \in 1..(Len(p) - 1) : { p[i], p[i + 1] } \in DOMAIN g.weight }

\* route_optimizer.py:126-129 the sum of the edge weights along the path
RECURSIVE PathLength(_, _, _)
PathLength(g, path, j) ==
    IF j >= Len(path) THEN 0
    ELSE g.weight[{ path[j], path[j + 1] }] + PathLength(g, path, j + 1)

\* mutant: the paths come in any order
ShortestSimplePaths_AnyOrder(g, source, target) ==
    LET paths == SimplePaths(g, source, target)
    IN  { order \in [1..Cardinality(paths) -> paths] :
            \A i, j \in 1..Cardinality(paths) : i # j => order[i] # order[j] }

\* networkx shortest_simple_paths(G, source, target, weight), both nodes in
\* G: the lists of all simple paths it can generate, shortest first (paths
\* of equal length in either order)
ShortestSimplePaths(g, source, target) ==
    LET paths == SimplePaths(g, source, target)
    IN  { order \in [1..Cardinality(paths) -> paths] :
            /\ \A i, j \in 1..Cardinality(paths) : i # j => order[i] # order[j]
            /\ \A i \in 1..(Cardinality(paths) - 1) :
                  PathLength(g, order[i], 1) <= PathLength(g, order[i + 1], 1) }

\* route_optimizer.py:131-136
AlternativeRoute(g, i, path) ==
    [ route_number |-> i,
      path |-> path,
      distance_km |-> Round2(PathLength(g, path, 1)),
      estimated_time_min |-> Round2((PathLength(g, path, 1) * 60) \div 60) ]

\* RouteOptimizer.get_alternative_routes, for k >= 0: the graph it leaves
\* and the lists it can return.  shortest_simple_paths raises NodeNotFound
\* for a target that is no node; the bare except turns that into [].
get_alternative_routes(g, user_location, stations_df, target_station_id, k) ==
    LET built_graph == build_graph(g, stations_df, user_location)
    IN  IF target_station_id \notin Range(built_graph.nodes)
        THEN { [ graph |-> built_graph, routes |-> << >> ] }
        ELSE { [ graph |-> built_graph,
                 routes |-> [ i \in 1..Min2(k, Len(paths)) |->
                                AlternativeRoute(built_graph, i, paths[i]) ] ] :
               paths \in ShortestSimplePaths(built_graph, UserNode, target_station_id) }

\* target_station_id: a station id of TripIds, in the table or not, or an
\* id no table has
AltTargets == Range(TripIds) \cup { UnknownId }

\* k: no route, fewer than, and more routes than the five simple paths of a
\* graph of three stations
AltCounts == { 0, 1, 2, 3, 6 }

InitAlt ==
    /\ \E s \in TripChoices, user_location \in UserPoints,
          target \in AltTargets, k \in AltCounts :
          \E p \in [1..Len(s) -> TripPoints] :
             trip_in = [ user_location |-> user_location,
                         stations_df |-> TripTable(s, p, [ i \in 1..Len(s) |-> "Available" ]),
                         target_station_id |-> target,
                         k |-> k ]
    /\ opt_out = [ state |-> "idle" ]
    /\ multi_out = [ state |-> "idle" ]
    /\ alt_out = [ state |-> "idle" ]
    /\ RouteIdle
    /\ ChatIdle /\ DistIdle /\ ScoreIdle
    /\ RecIdle /\ DataIdle /\ FinderIdle /\ UiIdle /\ SessIdle

\* optimizer.get_alternative_routes(user_location, stations_df, target, k)
CallGetAlternativeRoutes ==
    /\ alt_out.state = "idle"
    /\ \E r \in get_alternative_routes(graph, trip_in.user_location, trip_in.stations_df,
                                       trip_in.target_station_id, trip_in.k) :
          /\ graph' = r.graph
          /\ alt_out' = [ state |-> "returned", routes |-> r.routes ]
    /\ built' = [ done |-> TRUE, stations_df |-> trip_in.stations_df,
                  user_location |-> trip_in.user_location,
                  stale |-> ~(Range(graph.nodes) \subseteq
                                ({ UserNode } \cup TableIds(trip_in.stations_df))) ]
    /\ UNCHANGED <<sp_out, trip_in, opt_out, multi_out>>
    /\ UNCHANGED <<chat_vars, dist_vars, score_vars>>
    /\ UNCHANGED <<rec_vars, data_vars, finder_vars, ui_vars, sess_vars>>

NextAlt == CallGetAlternativeRoutes

SpecAlt == InitAlt /\ [][NextAlt]_vars

(* Claims about get_alternative_routes, checked under SpecAlt *)

C26_UnknownTargetSeen ==
    /\ alt_out.state = "returned"
    /\ trip_in.target_station_id = UnknownId
    /\ Len(trip_in.stations_df) = 3
    /\ trip_in.k = 3
    /\ alt_out.routes = << >>

(* Claims about calculate_multi_stop_route, checked under SpecTrip *)

\* distance_km of a shortest path between two nodes of the graph: the least
\* length of a simple path between them, rounded as find_shortest_path does
ShortestKm(g, a, b) ==
    LET lengths == { PathLength(g, p, 1) : p \in SimplePaths(g, a, b) }
    IN  Round2(CHOOSE l \in lengths : \A m \in lengths : l <= m)

\* the sum of the legs of the route from leg i on
RECURSIVE LegsKm(_, _, _)
LegsKm(g, route, i) ==
    IF i >= Len(route) THEN 0
    ELSE ShortestKm(g, route[i], route[i + 1]) + LegsKm(g, route, i + 1)

\* C25: calculate_multi_stop_route reports num_stations equal to the number
\* of stations in the returned route and total_distance_km equal to the sum
\* of the shortest-path distances of the consecutive legs of that route; with
\* no Available station (or num_stops = 0) it returns route ['USER'], total
\* distance 0 and num_stations 0.
C25_MultiStopTotals ==
    multi_out.state = "returned" =>
        /\ multi_out.num_stations = Len(multi_out.route) - 1
        /\ multi_out.route[1] = UserNode
        /\ \A i \in 2..Len(multi_out.route) :
              multi_out.route[i] \in TableIds(trip_in.stations_df)
        /\ multi_out.total_distance_km = LegsKm(graph, multi_out.route, 1)
        /\ (AvailableAt(trip_in.stations_df) = {} \/ trip_in.num_stops = 0) =>
              /\ multi_out.route = << UserNode >>
              /\ multi_out.total_distance_km = 0
              /\ multi_out.num_stations = 0

\* a route of three stations from <<1, 1>>: legs of 157.06, 111.00 and
\* 157.06 km (each rounded on its own) give 425.12 km
C25_Witness ==
    /\ multi_out.state = "returned"
    /\ multi_out.num_stations = 3
    /\ trip_in.user_location = <<1, 1>>
    /\ ShortestKm(graph, UserNode, multi_out.route[2]) = 15706
    /\ ShortestKm(graph, multi_out.route[2], multi_out.route[3]) = 11100
    /\ multi_out.total_distance_km = 42512

\* no Available station: the route is ['USER']
C25_NoneAvailableSeen ==
    /\ multi_out.state = "returned"
    /\ Len(trip_in.stations_df) = 3
    /\ trip_in.num_stops = 3
    /\ AvailableAt(trip_in.stations_df) = {}
    /\ multi_out.route = << UserNode >>
-----------------------------------------------------------------------------
(* data/ev_stations_data.py: load_ev_stations *)

\* ev_stations_data.py:9-67 the text fields of the 14 records, in the order of
\* SampleStations
StationTexts ==
  << [ name |-> "Tesla Supercharger - Downtown LA",
       city |-> "Los Angeles", address |-> "123 Main St",
       type |-> "Fast Charging", connectors |-> "CCS, CHAdeMO" ],
     [ name |-> "ChargePoint Station - San Francisco",
       city |-> "San Francisco", address |-> "456 Market St",
       type |-> "Level 2", connectors |-> "J1772" ],
     [ name |-> "EVgo Fast Charger - Seattle",
       city |-> "Seattle", address |-> "789 Pike St",
       type |-> "Fast Charging", connectors |-> "CCS, CHAdeMO" ],
     [ name |-> "BP Pulse - London",
       city |-> "London", address |-> "10 Oxford St",
       type |-> "Fast Charging", connectors |-> "CCS, Type 2" ],
     [ name |-> "Ionity Charger - Manchester",
       city |-> "Manchester", address |-> "25 Deansgate",
       type |-> "Ultra Fast", connectors |-> "CCS" ],
     [ name |-> "EnBW Charging - Berlin",
       city |-> "Berlin", address |-> "Unter den Linden 5",
       type |-> "Fast Charging", connectors |-> "CCS, Type 2" ],
     [ name |-> "Tata Power EZ Charge - Bangalore",
       city |-> "Bangalore", address |-> "MG Road, Bangalore",
       type |-> "Fast Charging", connectors |-> "CCS, CHAdeMO, Type 2" ],
     [ name |-> "Ather Grid - Delhi",
       city |-> "Delhi", address |-> "Connaught Place",
       type |-> "Fast Charging", connectors |-> "CCS, Type 2" ],
     [ name |-> "Fortum Charge & Drive - Mumbai",
       city |-> "Mumbai", address |-> "Bandra West",
       type |-> "Fast Charging", connectors |-> "CCS, CHAdeMO" ],
     [ name |-> "Statiq EV Charger - Hyderabad",
       city |-> "Hyderabad", address |-> "Hi-Tech City",
       type |-> "Level 2", connectors |-> "Type 2" ],
     [ name |-> "ChargeZone - Chennai",
       city |-> "Chennai", address |-> "Anna Nagar",
       type |-> "Fast Charging", connectors |-> "CCS, Type 2" ],
     [ name |-> "Magenta ChargeGrid - Pune",
       city |-> "Pune", address |-> "Koregaon Park",
       type |-> "Fast Charging", connectors |-> "CCS, CHAdeMO, Type 2" ],
     [ name |-> "Revos EV Charging - Kolkata",
       city |-> "Kolkata", address |-> "Park Street",
       type |-> "Level 2", connectors |-> "Type 2" ],
     [ name |-> "Tata Power - Jaipur",
       city |-> "Jaipur", address |-> "MI Road",
       type |-> "Fast Charging", connectors |-> "CCS, Type 2" ] >>

\* ev_stations_data.py:75 the values np.random.choice draws from
AmenityOptions ==
    << "WiFi, Restroom", "Cafe, WiFi", "Shopping Mall", "Restaurant", "Rest Area" >>

\* mutant: the opening hours are drawn with the amenities
StationRecord_DrawnHours(i, option) ==
    SampleStations[i] @@ StationTexts[i]
        @@ [ opening_hours |-> IF option = 1 THEN "24/7" ELSE "06:00-22:00",
             amenities |-> AmenityOptions[option] ]

\* ev_stations_data.py:71-76 row i of the DataFrame: the literal fields,
\* opening_hours, and the amenities drawn for the row
StationRecord(i, option) ==
    SampleStations[i] @@ StationTexts[i]
        @@ [ opening_hours |-> "24/7", amenities |-> AmenityOptions[option] ]

\* mutant: all_stations = global_stations + global_stations
generate_sample_ev_stations_GlobalTwice(draw) ==
    [ i \in 1..12 |-> StationRecord(((i - 1) % 6) + 1, draw[i]) ]

\* generate_sample_ev_stations, for the draws of np.random.choice row by row
generate_sample_ev_stations(draw) ==
    [ i \in 1..Len(SampleStations) |-> StationRecord(i, draw[i]) ]

\* load_ev_stations
load_ev_stations(draw) == generate_sample_ev_stations(draw)

\* the draws: free for the first MaxDrawn rows, repeated with that period
\* over the rows behind them
MaxDrawn == 2

Draws ==
    { [ i \in 1..Len(SampleStations) |-> f[((i - 1) % MaxDrawn) + 1] ] :
        f \in [1..MaxDrawn -> 1..Len(AmenityOptions)] }

InitData ==
    /\ DataIdle
    /\ ChatIdle /\ DistIdle /\ ScoreIdle /\ RouteIdle
    /\ RecIdle /\ TripIdle /\ FinderIdle /\ UiIdle /\ SessIdle

\* a call of load_ev_stations(); two calls are kept
CallLoadEvStations ==
    /\ Len(loads) < 2
    /\ \E draw \in Draws : loads' = Append(loads, load_ev_stations(draw))
    /\ UNCHANGED frames
    /\ UNCHANGED <<chat_vars, dist_vars, score_vars, route_vars>>
    /\ UNCHANGED <<rec_vars, trip_vars, finder_vars, ui_vars, sess_vars>>

NextData == CallLoadEvStations

SpecData == InitData /\ [][NextData]_vars

(* Claims about the dataset *)

StationFields ==
    { "station_id", "name", "latitude", "longitude", "country", "city", "address",
      "type", "connectors", "power_kw", "availability", "pricing", "rating",
      "opening_hours", "amenities" }

\* C15: any two calls of load_ev_stations return the same 14 records in the
\* same order with identical values in every field except amenities.
C15_LoadsDifferOnlyInAmenities ==
    \A a, b \in 1..Len(loads) :
        /\ Len(loads[a]) = 14
        /\ \A i \in 1..Len(loads[a]) :
              /\ DOMAIN loads[a][i] = StationFields
              /\ i <= Len(loads[b])
              /\ \A field \in StationFields \ { "amenities" } :
                    loads[a][i][field] = loads[b][i][field]

\* two calls whose amenities differ, in the first row and in the last
C15_Witness ==
    /\ Len(loads) = 2
    /\ loads[1][1].amenities # loads[2][1].amenities
    /\ loads[1][14].amenities # loads[2][14].amenities
    /\ loads[1][1].station_id = "US001"
    /\ loads[2][14].station_id = "IN008"

\* C16: every record returned by load_ev_stations is well-formed: its
\* availability is one of 'Available', 'In Use' and 'Maintenance', its rating
\* lies in [0, 5] (tenths: 0..50), and its station_id is that of no other record.
C16_RecordsWellFormed ==
    \A a \in 1..Len(loads) :
        \A i \in 1..Len(loads[a]) :
            /\ loads[a][i].availability \in { "Available", "In Use", "Maintenance" }
            /\ loads[a][i].rating >= 0
            /\ loads[a][i].rating <= 50
            /\ \A j \in 1..Len(loads[a]) :
                  i # j => loads[a][i].station_id # loads[a][j].station_id

\* a returned table with stations in each of the three states
C16_Witness ==
    /\ Len(loads) >= 1
    /\ \A s \in { "Available", "In Use", "Maintenance" } :
          \E i \in 1..Len(loads[1]) : loads[1][i].availability = s

-----------------------------------------------------------------------------
(* app.py, Station Finder tab: the filter pipeline and the route button     *)
(* power_kw and min_rating are in tenths, distance_km in hundredths of a    *)
(* km; the sliders give min_power and max_distance in whole kW and km.      *)

\* app.py:138-139
CountryPasses(row, selected_country) ==
    selected_country = "All" \/ row.country = selected_country

\* mutant: the availability selection is not applied
AvailabilityPasses_Ignored(row, selected_availability) == TRUE

\* app.py:141-142
AvailabilityPasses(row, selected_availability) ==
    selected_availability = "All" \/ row.availability = selected_availability

\* app.py:144-145
PowerAndRatingPass(row, min_power, min_rating) ==
    row.power_kw >= 10 * min_power /\ row.rating >= min_rating

\* app.py:136-145 filtered_df
FilteredStations(stations_df, widgets) ==
    SelectSeq(stations_df,
              LAMBDA row :
                 /\ CountryPasses(row, widgets.selected_country)
                 /\ AvailabilityPasses(row, widgets.selected_availability)
                 /\ PowerAndRatingPass(row, widgets.min_power, widgets.min_rating))

\* data_processor.py:44-51 the columns distance_km and estimated_time_min
\* are set, replacing columns of these names
WithDistanceAndTime(row, user_lat, user_lon) ==
    LET d == calculate_distance(Coord(user_lat), Coord(user_lon),
                                Coord(row.latitude), Coord(row.longitude)).value
    IN  [ distance |-> d,
          estimated_time_min |-> calculate_estimated_time(d, DefaultSpeedKmh) ] @@ row

\* the rows in ascending order of distance, rows of equal distance in their
\* earlier order (nsmallest keeps the first), rows without a distance last
RECURSIVE InsertByDistance(_, _)
InsertByDistance(sorted, row) ==
    IF sorted = << >> THEN << row >>
    ELSE IF sorted[Len(sorted)].distance.is_none
              \/ (~row.distance.is_none
                    /\ row.distance.v < sorted[Len(sorted)].distance.v)
         THEN Append(InsertByDistance(SubSeq(sorted, 1, Len(sorted) - 1), row),
                     sorted[Len(sorted)])
         ELSE Append(sorted, row)

RECURSIVE SortByDistance(_, _)
SortByDistance(rows, i) ==
    IF i = 0 THEN << >> ELSE InsertByDistance(SortByDistance(rows, i - 1), rows[i])

\* rows without a distance are put behind the others in their own order
NoneLast(rows) ==
    SelectSeq(rows, LAMBDA row : ~row.distance.is_none)
        \o SelectSeq(rows, LAMBDA row : row.distance.is_none)

\* DataFrame.head(n)
head(rows, n) == SubSeq(rows, 1, Min2(n, Len(rows)))

\* mutant: the rows are returned in the order of the table
nsmallest_Unsorted(rows, n) == head(rows, n)

\* data_processor.py:53 nsmallest(n, 'distance_km'): the first n rows in
\* ascending order of distance, none for n <= 0
nsmallest(rows, n) ==
    IF n <= 0 THEN << >>
    ELSE head(SortByDistance(NoneLast(rows), Len(rows)), n)

\* EVDataProcessor.find_nearest_stations(stations_df, user_lat, user_lon, n):
\* the outcomes.  pandas decides two cases by its
\* release: a table without rows (apply(axis=1) returns a frame, which cannot
\* be set as one column) and a distance_km column of None only (dtype object,
\* which nsmallest refuses); both are a choice of raising or going on.
find_nearest_stations(stations_df, user_lat, user_lon, n) ==
    LET rows == [ i \in 1..Len(stations_df) |->
                    WithDistanceAndTime(stations_df[i], user_lat, user_lon) ]
        nearest_stations == [ state |-> "returned",
                              rows |-> nsmallest(rows, n) ]
    IN  IF \A i \in 1..Len(rows) : rows[i].distance.is_none
        THEN { [ state |-> "raised", rows |-> << >> ], nearest_stations }
        ELSE { nearest_stations }

\* app.py:151 nearby_stations['distance_km'] <= max_distance; NaN fails it
WithinDistance(row, max_distance) ==
    ~row.distance.is_none /\ row.distance.v <= 100 * max_distance

\* the row as rank_stations reads it, distance_km a number
Measured(row) == row @@ [ distance_km |-> row.distance.v ]

\* app.py:36-88 create_map(stations_df, center_lat, center_lon): one marker
\* per row; with a distance_km column and a row, the user's marker and a
\* line from the centre to stations_df.iloc[0]
create_map(stations_df, has_distance, center_lat, center_lon) ==
    [ markers |-> [ i \in 1..Len(stations_df) |-> stations_df[i].station_id ],
      user_marker |-> has_distance /\ Len(stations_df) > 0,
      line |-> IF has_distance /\ Len(stations_df) > 0
               THEN << << center_lat, center_lon >>,
                       << stations_df[1].latitude, stations_df[1].longitude >> >>
               ELSE << >>,
      line_popup |-> IF has_distance /\ Len(stations_df) > 0
                     THEN stations_df[1].station_id ELSE "" ]

\* app.py:157-159 the map is drawn when a station was found
NoMap == [ markers |-> << >>, user_marker |-> FALSE, line |-> << >>, line_popup |-> "" ]

\* app.py:136-153 the tables nearby_stations the run can end with
StationFinder(stations_df, widgets) ==
    UNION { IF found.state = "raised"
            THEN { [ state |-> "raised", nearby |-> << >>, map_obj |-> NoMap ] }
            ELSE LET within == SelectSeq(found.rows,
                                         LAMBDA row : WithinDistance(row, widgets.max_distance))
                     scored == [ i \in 1..Len(within) |->
                                   Measured(within[i]) @@
                                     [ station_score |->
                                         calculate_station_score(Measured(within[i]), TRUE) ] ]
                 IN  { [ state |-> "rendered", nearby |-> ranked_rows,
                         map_obj |-> IF Len(ranked_rows) > 0
                                     THEN create_map(ranked_rows, TRUE, widgets.user_lat,
                                                     widgets.user_lon)
                                     ELSE NoMap ] :
                       ranked_rows \in SortedByScore(scored) } :
            found \in find_nearest_stations(FilteredStations(stations_df, widgets),
                                              widgets.user_lat, widgets.user_lon,
                                              Len(FilteredStations(stations_df, widgets))) }

\* app.py:184-192 the button in the expander of row k: what it writes
RouteButton(g, nearby, widgets) ==
    LET r == find_optimal_station(g, << widgets.user_lat, widgets.user_lon >>,
                                  head(nearby, 10))
    IN  [ graph |-> r.graph,
          written |-> r.best_path_info.outcome = "path",
          distance_km |-> IF r.best_path_info.outcome = "path"
                          THEN r.best_path_info.distance_km ELSE 0,
          estimated_time_min |-> IF r.best_path_info.outcome = "path"
                                 THEN r.best_path_info.estimated_time_min ELSE 0 ]

\* a bounded dataset on the coordinate grid
FinderStations ==
  << [ station_id |-> "IN001", country |-> "India", latitude |-> 0, longitude |-> 0,
       power_kw |-> 600, availability |-> "Available", pricing |-> 12, rating |-> 45 ],
     [ station_id |-> "IN002", country |-> "India", latitude |-> 0, longitude |-> 1,
       power_kw |-> 1200, availability |-> "In Use", pricing |-> 10, rating |-> 43 ],
     [ station_id |-> "IN004", country |-> "India", latitude |-> 1, longitude |-> 0,
       power_kw |-> 500, availability |-> "Available", pricing |-> 8, rating |-> 42 ],
     [ station_id |-> "IN007", country |-> "India", latitude |-> 0, longitude |-> 2,
       power_kw |-> 72, availability |-> "Maintenance", pricing |-> 7, rating |-> 38 ],
     [ station_id |-> "US001", country |-> "USA", latitude |-> 1, longitude |-> 1,
       power_kw |-> 1500, availability |-> "Available", pricing |-> 28, rating |-> 45 ],
     [ station_id |-> "UK002", country |-> "UK", latitude |-> 2, longitude |-> 2,
       power_kw |-> 3500, availability |-> "Available", pricing |-> 69, rating |-> 47 ] >>

\* the widget values: a latitude of 91 is one geopy refuses
FinderWidgets ==
    [ user_lat : { 0, 1, 2, 91 }, user_lon : { 0 },
      selected_country : { "All", "India", "USA" },
      selected_availability : { "All", "Available", "In Use", "Maintenance" },
      min_power : { 0, 50, 150 },
      min_rating : { 35, 45 },
      max_distance : { 100, 160, 500 } ]

InitFinder ==
    /\ \E widgets \in FinderWidgets :
          finder = [ state |-> "input", stations_df |-> FinderStations,
                     widgets |-> widgets, nearby |-> << >>, map_obj |-> NoMap ]
    /\ route_report = [ state |-> "idle" ]
    /\ ChatIdle /\ DistIdle /\ ScoreIdle /\ RouteIdle
    /\ RecIdle /\ TripIdle /\ DataIdle /\ UiIdle /\ SessIdle

\* a script run of the Station Finder tab with the widget values
RunStationFinder ==
    /\ finder.state = "input"
    /\ \E r \in StationFinder(finder.stations_df, finder.widgets) :
          finder' = [ finder EXCEPT !.state = r.state, !.nearby = r.nearby,
                                   !.map_obj = r.map_obj ]
    /\ UNCHANGED route_report
    /\ UNCHANGED <<chat_vars, dist_vars, score_vars, route_vars>>
    /\ UNCHANGED <<rec_vars, trip_vars, data_vars, ui_vars, sess_vars>>

\* 'Get Optimal Route to <name>' pressed in the expander of one of the first
\* five rows of nearby_stations
PressRouteButton ==
    /\ finder.state = "rendered"
    /\ route_report.state = "idle"
    /\ \E k \in 1..Len(head(finder.nearby, 5)) :
          LET r == RouteButton(graph, finder.nearby, finder.widgets)
          IN  /\ graph' = r.graph
              /\ route_report' = [ state |-> "done", pressed |-> finder.nearby[k],
                                   written |-> r.written,
                                   distance_km |-> r.distance_km,
                                   estimated_time_min |-> r.estimated_time_min ]
    /\ built' = [ done |-> TRUE, stations_df |-> head(finder.nearby, 10),
                  user_location |-> << finder.widgets.user_lat, finder.widgets.user_lon >>,
                  stale |-> FALSE ]
    /\ UNCHANGED <<finder, sp_out>>
    /\ UNCHANGED <<chat_vars, dist_vars, score_vars>>
    /\ UNCHANGED <<rec_vars, trip_vars, data_vars, ui_vars, sess_vars>>

NextFinder == RunStationFinder \/ PressRouteButton

SpecFinder == InitFinder /\ [][NextFinder]_vars

(* Claims about the Station Finder *)

\* the distance of a dataset row from the user, None included
DistanceOf(row, widgets) ==
    calculate_distance(Coord(widgets.user_lat), Coord(widgets.user_lon),
                       Coord(row.latitude), Coord(row.longitude)).value

\* the dataset rows that satisfy all active filters
SatisfyingIds(stations_df, widgets) ==
    { stations_df[i].station_id : i \in
        { j \in 1..Len(stations_df) :
            /\ widgets.selected_country \in { "All", stations_df[j].country }
            /\ widgets.selected_availability \in { "All", stations_df[j].availability }
            /\ stations_df[j].power_kw >= 10 * widgets.min_power
            /\ stations_df[j].rating >= widgets.min_rating
            /\ ~DistanceOf(stations_df[j], widgets).is_none
            /\ DistanceOf(stations_df[j], widgets).v <= 100 * widgets.max_distance } }

\* C18: the stations shown by the Station Finder are exactly the dataset
\* stations that satisfy all active filters (country, availability, minimum
\* power, minimum rating, maximum distance), each once; a station whose
\* distance could not be computed is never shown.
C18_ShownAreTheFiltered ==
    finder.state \in { "rendered", "raised" } =>
        /\ { finder.nearby[i].station_id : i \in 1..Len(finder.nearby) }
              = SatisfyingIds(finder.stations_df, finder.widgets)
        /\ Len(finder.nearby) = Cardinality(SatisfyingIds(finder.stations_df, finder.widgets))
        /\ \A i \in 1..Len(finder.nearby) :
              ~DistanceOf(finder.nearby[i], finder.widgets).is_none

\* three stations shown out of six: one dropped by the availability filter,
\* one by the minimum power, one by the distance
C18_Witness ==
    /\ finder.state = "rendered"
    /\ finder.widgets.selected_availability = "Available"
    /\ finder.widgets.selected_country = "All"
    /\ finder.widgets.min_power = 50
    /\ finder.widgets.max_distance = 160
    /\ finder.widgets.user_lat = 0
    /\ { finder.nearby[i].station_id : i \in 1..Len(finder.nearby) }
          = { "IN001", "IN004", "US001" }

\* C20: pressing 'Get Optimal Route to <name>' in the expander of a station S
\* reports the distance and estimated time of the route from the user's
\* location to that station S.
C20_RouteButtonReportsItsStation ==
    route_report.state = "done" =>
        LET to_s == OnlyOutcome(find_shortest_path(graph, UserNode,
                                                   route_report.pressed.station_id))
        IN  /\ route_report.written
            /\ route_report.distance_km = to_s.distance_km
            /\ route_report.estimated_time_min = to_s.estimated_time_min


\* C21: when create_map draws the user's marker and the route line, the line
\* ends at the nearest station of the table it displays, the row with the
\* smallest distance_km, also when rank_stations has reordered the table.
C21_RouteLineEndsAtNearest ==
    (finder.state = "rendered" /\ finder.map_obj.user_marker) =>
        \E i \in 1..Len(finder.nearby) :
            /\ finder.map_obj.line[2]
                  = << finder.nearby[i].latitude, finder.nearby[i].longitude >>
            /\ \A j \in 1..Len(finder.nearby) :
                  finder.nearby[i].distance_km <= finder.nearby[j].distance_km

\* the dataset row a shown row was made from
DatasetRow(stations_df, id) ==
    stations_df[CHOOSE j \in 1..Len(stations_df) : stations_df[j].station_id = id]

\* the columns a dataset row has
DatasetColumns == DOMAIN FinderStations[1]

-----------------------------------------------------------------------------
(* utils/data_processor.py: find_nearest_stations called on its own *)

\* the tables: the rows of the bounded dataset at increasing positions
NearestTables ==
    { SelectSeq(FinderStations, LAMBDA row : row.station_id \in ids) :
        ids \in SUBSET { FinderStations[i].station_id : i \in 1..Len(FinderStations) } }

\* the argument n: none, fewer than, as many as and more rows than the table
NearestCounts == 0..7

\* user_lat: three points of the grid and a latitude geopy refuses
NearestLatitudes == { 0, 1, 2, 91 }

InitNearest ==
    /\ \E stations_df \in NearestTables, user_lat \in NearestLatitudes, n \in NearestCounts :
          nearest = [ state |-> "input", stations_df |-> stations_df,
                      user_lat |-> user_lat, user_lon |-> 0, n |-> n, rows |-> << >> ]
    /\ score_df = [ has_distance |-> FALSE, rows |-> << >> ]
    /\ ranked = [ done |-> FALSE, rows |-> << >> ]
    /\ ChatIdle /\ DistIdle /\ RouteIdle /\ OthersIdle

\* processor.find_nearest_stations(stations_df, user_lat, user_lon, n)
CallFindNearestStations ==
    /\ nearest.state = "input"
    /\ \E r \in find_nearest_stations(nearest.stations_df, nearest.user_lat,
                                      nearest.user_lon, nearest.n) :
          nearest' = [ nearest EXCEPT !.state = r.state, !.rows = r.rows ]
    /\ UNCHANGED <<score_df, ranked>>
    /\ UNCHANGED <<chat_vars, dist_vars, route_vars, other_vars>>

NextNearest == CallFindNearestStations

SpecNearest == InitNearest /\ [][NextNearest]_vars

(* Claims about find_nearest_stations, checked under SpecNearest *)

\* the distance of a table row from the user of the call
NearestDistanceOf(row) ==
    DistanceOf(row, [ user_lat |-> nearest.user_lat, user_lon |-> nearest.user_lon ])

\* the call returned what the claim describes
NearestAsClaimed ==
    /\ nearest.state = "returned"
    /\ Len(nearest.rows) = Min2(nearest.n, Len(nearest.stations_df))
    /\ \A i \in 1..Len(nearest.rows) :
          /\ ~nearest.rows[i].distance.is_none
          /\ nearest.rows[i].distance = NearestDistanceOf(nearest.rows[i])
          /\ nearest.rows[i].estimated_time_min
                = calculate_estimated_time(nearest.rows[i].distance, DefaultSpeedKmh)
          /\ \E j \in 1..Len(nearest.stations_df) :
                nearest.stations_df[j].station_id = nearest.rows[i].station_id
    /\ \A i, j \in 1..Len(nearest.rows) :
          i # j => nearest.rows[i].station_id # nearest.rows[j].station_id
    /\ \A i \in 1..(Len(nearest.rows) - 1) :
          nearest.rows[i].distance.v <= nearest.rows[i + 1].distance.v
    /\ \A j \in 1..Len(nearest.stations_df) :
          (\A i \in 1..Len(nearest.rows) :
              nearest.rows[i].station_id # nearest.stations_df[j].station_id)
            => \A i \in 1..Len(nearest.rows) :
                  /\ ~NearestDistanceOf(nearest.stations_df[j]).is_none
                  /\ NearestDistanceOf(nearest.stations_df[j]).v >= nearest.rows[i].distance.v

\* C23: find_nearest_stations(stations, lat, lon, n) returns min(n, number
\* of stations) rows in non-decreasing distance_km order, each with
\* distance_km and estimated_time_min filled in, and no station left out is
\* strictly nearer to the user than a station returned.
C23_NearestStations ==
    nearest.state \in { "returned", "raised" } => NearestAsClaimed

\* the same for a user location geopy accepts and a table with a row
NearestOnValidLocation ==
    (/\ nearest.state \in { "returned", "raised" }
     /\ nearest.user_lat <= 90
     /\ Len(nearest.stations_df) > 0) => NearestAsClaimed

\* three of five stations returned, left out two that are farther
NearestThreeOfFive ==
    /\ nearest.state = "returned"
    /\ Len(nearest.stations_df) = 5
    /\ nearest.n = 3
    /\ Len(nearest.rows) = 3
    /\ nearest.rows[1].station_id # nearest.stations_df[1].station_id

-----------------------------------------------------------------------------
(* models/recommendation_model.py: predict_station_suitability,             *)
(* rank_by_preferences, get_personalized_recommendations                    *)
(* user_preferences is a dict: a function on the keys it holds, in the      *)
(* units of the rows (distance in hundredths of a km, power and rating in   *)
(* tenths, pricing in hundredths).                                          *)

\* dict.get(key, default)
get(user_preferences, key, default) ==
    IF key \in DOMAIN user_preferences THEN user_preferences[key] ELSE default

\* 'distance_km' in station_row
HasDistance(station_row) == "distance" \in DOMAIN station_row

\* mutant: a row without distance_km is given the 30 points of the distance
predict_station_suitability_DistanceByDefault(station_row, user_preferences) ==
    Min2(100,
         (IF HasDistance(station_row)
          THEN IF ~station_row.distance.is_none
                    /\ station_row.distance.v <= get(user_preferences, "max_distance_km", 10000)
               THEN 30 ELSE 0
          ELSE 30)
         + (IF station_row.power_kw >= get(user_preferences, "preferred_power_kw", 500)
            THEN 25 ELSE 0)
         + (IF station_row.pricing <= get(user_preferences, "max_pricing", 100)
            THEN 20 ELSE 0)
         + (IF station_row.rating >= get(user_preferences, "min_rating", 35)
            THEN 15 ELSE 0)
         + (IF station_row.availability = "Available" THEN 10 ELSE 0))

\* StationRecommendationModel.predict_station_suitability, for a row whose
\* distance_km, if it has one, is a number or NaN (NaN <= max is False)
predict_station_suitability(station_row, user_preferences) ==
    Min2(100,
         (IF HasDistance(station_row)
               /\ ~station_row.distance.is_none
               /\ station_row.distance.v <= get(user_preferences, "max_distance_km", 10000)
          THEN 30 ELSE 0)
         + (IF station_row.power_kw >= get(user_preferences, "preferred_power_kw", 500)
            THEN 25 ELSE 0)
         + (IF station_row.pricing <= get(user_preferences, "max_pricing", 100)
            THEN 20 ELSE 0)
         + (IF station_row.rating >= get(user_preferences, "min_rating", 35)
            THEN 15 ELSE 0)
         + (IF station_row.availability = "Available" THEN 10 ELSE 0))

\* recommendation_model.py:107 sort_values('suitability_score',
\* ascending=False): the orders with non-increasing suitability_score (rows of
\* equal score in either order)
SortedBySuitability(rows) ==
    { [ i \in 1..Len(rows) |-> rows[p[i]] ] :
        p \in { q \in [1..Len(rows) -> 1..Len(rows)] :
                  /\ \A i, j \in 1..Len(rows) : i # j => q[i] # q[j]
                  /\ \A i \in 1..(Len(rows) - 1) :
                        rows[q[i]].suitability_score >= rows[q[i + 1]].suitability_score } }

\* StationRecommendationModel.rank_by_preferences: the outcomes.  A
\* distance_km column of None only (dtype object) makes None <= max_distance
\* raise TypeError; for a table without rows pandas decides by its release
\* whether the empty result of apply can be set as a column.
rank_by_preferences(stations_df, user_preferences) ==
    LET df == [ i \in 1..Len(stations_df) |->
                  [ suitability_score |->
                      predict_station_suitability(stations_df[i], user_preferences) ]
                    @@ stations_df[i] ]
        returned == { [ state |-> "returned", rows |-> sorted ] :
                      sorted \in SortedBySuitability(df) }
        raised == { [ state |-> "raised", rows |-> << >> ] }
    IN  IF Len(stations_df) = 0 THEN raised \cup returned
        ELSE IF \A i \in 1..Len(stations_df) :
                   HasDistance(stations_df[i]) /\ stations_df[i].distance.is_none
        THEN raised
        ELSE returned

\* StationRecommendationModel.get_personalized_recommendations, for n >= 0
get_personalized_recommendations(user_location, user_preferences, stations_df, n) ==
    UNION { IF stations_with_distance.state = "raised"
            THEN { [ state |-> "raised", rows |-> << >> ] }
            ELSE { IF ranked_stations.state = "raised"
                   THEN ranked_stations
                   ELSE [ state |-> "returned", rows |-> head(ranked_stations.rows, n) ] :
                   ranked_stations \in rank_by_preferences(stations_with_distance.rows,
                                                           user_preferences) } :
            stations_with_distance \in
                find_nearest_stations(stations_df, user_location[1], user_location[2],
                                      Len(stations_df)) }

\* the tables hold at most MaxPrefRows rows of the bounded dataset
MaxPrefRows == 3

PrefTables ==
    { SelectSeq(FinderStations, LAMBDA row : row.station_id \in ids) :
        ids \in { s \in SUBSET { FinderStations[i].station_id : i \in 1..Len(FinderStations) } :
                    Cardinality(s) <= MaxPrefRows } }

\* user_preferences: the empty dict (every default), a full one, and one
\* that names the distance only
PrefDicts ==
    { << >>,
      [ max_distance_km |-> 12000, preferred_power_kw |-> 600, max_pricing |-> 10,
        min_rating |-> 43 ],
      [ max_distance_km |-> 0 ] }

\* user_location: two points of the grid and a latitude geopy refuses
PrefLocations == { <<0, 0>>, <<1, 0>>, <<91, 0>> }

\* n
PrefCounts == { 0, 1, 2, 5 }

InitPref ==
    /\ \E stations_df \in PrefTables, user_location \in PrefLocations,
          user_preferences \in PrefDicts, n \in PrefCounts :
          pref = [ stations_df |-> stations_df, user_location |-> user_location,
                   user_preferences |-> user_preferences, n |-> n,
                   ranked |-> [ state |-> "idle", rows |-> << >> ],
                   top |-> [ state |-> "idle", rows |-> << >> ] ]
    /\ knn = [ is_trained |-> FALSE, fit |-> << >> ]
    /\ rec_out = [ state |-> "idle" ]
    /\ ChatIdle /\ DistIdle /\ ScoreIdle /\ RouteIdle
    /\ TripIdle /\ DataIdle /\ FinderIdle /\ UiIdle /\ SessIdle

\* recommender.rank_by_preferences(stations_df, user_preferences) on the
\* table as loaded, without a distance_km column
CallRankByPreferences ==
    /\ pref.ranked.state = "idle"
    /\ \E r \in rank_by_preferences(pref.stations_df, pref.user_preferences) :
          pref' = [ pref EXCEPT !.ranked = r ]
    /\ UNCHANGED <<knn, rec_out>>
    /\ UNCHANGED <<chat_vars, dist_vars, score_vars, route_vars>>
    /\ UNCHANGED <<trip_vars, data_vars, finder_vars, ui_vars, sess_vars>>

\* recommender.get_personalized_recommendations(user_location,
\* user_preferences, stations_df, n)
CallGetPersonalizedRecommendations ==
    /\ pref.top.state = "idle"
    /\ \E r \in get_personalized_recommendations(pref.user_location, pref.user_preferences,
                                                 pref.stations_df, pref.n) :
          pref' = [ pref EXCEPT !.top = r ]
    /\ UNCHANGED <<knn, rec_out>>
    /\ UNCHANGED <<chat_vars, dist_vars, score_vars, route_vars>>
    /\ UNCHANGED <<trip_vars, data_vars, finder_vars, ui_vars, sess_vars>>

NextPref == CallRankByPreferences \/ CallGetPersonalizedRecommendations

SpecPref == InitPref /\ [][NextPref]_vars

(* Claims about the suitability ranking, checked under SpecPref *)

\* the five criteria of a row for the preferences of the call, as 0 or 1
MetDistance(row) ==
    IF /\ "distance" \in DOMAIN row
       /\ ~row.distance.is_none
       /\ row.distance.v <= (IF "max_distance_km" \in DOMAIN pref.user_preferences
                             THEN pref.user_preferences.max_distance_km ELSE 10000)
    THEN 1 ELSE 0
MetPower(row) ==
    IF row.power_kw >= (IF "preferred_power_kw" \in DOMAIN pref.user_preferences
                        THEN pref.user_preferences.preferred_power_kw ELSE 500)
    THEN 1 ELSE 0
MetPricing(row) ==
    IF row.pricing <= (IF "max_pricing" \in DOMAIN pref.user_preferences
                       THEN pref.user_preferences.max_pricing ELSE 100)
    THEN 1 ELSE 0
MetRating(row) ==
    IF row.rating >= (IF "min_rating" \in DOMAIN pref.user_preferences
                      THEN pref.user_preferences.min_rating ELSE 35)
    THEN 1 ELSE 0
MetAvailable(row) == IF row.availability = "Available" THEN 1 ELSE 0

\* the suitability_score column of a returned table is as the claim says
SuitabilityAsClaimed(rows) ==
    \A i \in 1..Len(rows) :
        LET row == rows[i]
            s == row.suitability_score
        IN  /\ s = 30 * MetDistance(row) + 25 * MetPower(row) + 20 * MetPricing(row)
                     + 15 * MetRating(row) + 10 * MetAvailable(row)
            /\ s >= 0 /\ s <= 100
            /\ s = 100 <=> (MetDistance(row) + MetPower(row) + MetPricing(row)
                              + MetRating(row) + MetAvailable(row) = 5)
            /\ "distance" \notin DOMAIN row => s <= 70

NonIncreasingSuitability(rows) ==
    \A i \in 1..(Len(rows) - 1) :
        rows[i].suitability_score >= rows[i + 1].suitability_score

\* C27: predict_station_suitability returns the sum of the weights of the
\* satisfied criteria (30 distance within max, 25 power at least preferred,
\* 20 pricing at most max, 15 rating at least min, 10 Available), always a
\* value in [0,100], equal to 100 exactly when all five criteria hold and at
\* most 70 for a row without distance_km; rank_by_preferences orders rows by
\* non-increasing value of it and get_personalized_recommendations returns at
\* most n rows from the top of that order.
C27_SuitabilityRanking ==
    /\ pref.ranked.state = "returned" =>
          /\ SuitabilityAsClaimed(pref.ranked.rows)
          /\ NonIncreasingSuitability(pref.ranked.rows)
          /\ Len(pref.ranked.rows) = Len(pref.stations_df)
          /\ { pref.ranked.rows[i].station_id : i \in 1..Len(pref.ranked.rows) }
                = { pref.stations_df[i].station_id : i \in 1..Len(pref.stations_df) }
    /\ pref.top.state = "returned" =>
          /\ SuitabilityAsClaimed(pref.top.rows)
          /\ NonIncreasingSuitability(pref.top.rows)
          /\ Len(pref.top.rows) = Min2(pref.n, Len(pref.stations_df))
          /\ \A i, j \in 1..Len(pref.top.rows) :
                i # j => pref.top.rows[i].station_id # pref.top.rows[j].station_id
          /\ \A j \in 1..Len(pref.stations_df) :
                (\A i \in 1..Len(pref.top.rows) :
                    pref.top.rows[i].station_id # pref.stations_df[j].station_id)
                  => \A i \in 1..Len(pref.top.rows) :
                        pref.top.rows[i].suitability_score
                          >= 30 * MetDistance(WithDistanceAndTime(pref.stations_df[j],
                                                  pref.user_location[1], pref.user_location[2]))
                             + 25 * MetPower(pref.stations_df[j])
                             + 20 * MetPricing(pref.stations_df[j])
                             + 15 * MetRating(pref.stations_df[j])
                             + 10 * MetAvailable(pref.stations_df[j])

\* both calls returned for a table of three: the raw table ranked with a
\* row at 70, the recommendations two rows, the first at 100 and the second
\* lower, the row left out not above the second
C27_Witness ==
    /\ pref.ranked.state = "returned"
    /\ pref.top.state = "returned"
    /\ Len(pref.stations_df) = 3
    /\ pref.n = 2
    /\ pref.ranked.rows[1].suitability_score = 70
    /\ Len(pref.top.rows) = 2
    /\ pref.top.rows[1].suitability_score = 100
    /\ pref.top.rows[2].suitability_score < 100
    /\ pref.top.rows[2].station_id # pref.stations_df[2].station_id

-----------------------------------------------------------------------------
(* DataFrame objects by reference: which calls write into which table       *)
(* frames.heap maps a reference to the rows of the DataFrame it names.  A   *)
(* column assignment df[c] = ... changes the object df names; copy(),       *)
(* boolean indexing, nsmallest and sort_values make a new object.           *)

\* a reference no object of the heap has
NewRef(heap) == (CHOOSE r \in DOMAIN heap : \A q \in DOMAIN heap : q <= r) + 1

\* a new DataFrame object holding the rows
Allocate(heap, rows) ==
    [ heap |-> (NewRef(heap) :> rows) @@ heap, ref |-> NewRef(heap) ]

\* mutant: the name is bound to the same object (df = stations_df)
copy_Alias(heap, r) == [ heap |-> heap, ref |-> r ]

\* DataFrame.copy()
copy(heap, r) == Allocate(heap, heap[r])

\* df[column] = values: the object r names gets the columns cols[i] in row i
setitem(heap, r, cols) ==
    [ heap EXCEPT ![r] = [ i \in 1..Len(heap[r]) |-> cols[i] @@ heap[r][i] ] ]

\* the objects still referenced when a call returns: those of the caller and
\* the result
Returned(before, out_heap, state, ref) ==
    [ heap |-> [ r \in (DOMAIN before \cup (IF state = "returned" THEN { ref } ELSE {}))
                   |-> out_heap[r] ],
      state |-> state,
      ref |-> ref ]

\* data_processor.py:42-55 find_nearest_stations on the object r
FrameFindNearestStations(heap, r, user_lat, user_lon, n) ==
    LET stations_df == copy(heap, r)
        cols == [ i \in 1..Len(heap[r]) |->
                    LET w == WithDistanceAndTime(heap[r][i], user_lat, user_lon)
                    IN  [ distance |-> w.distance,
                          estimated_time_min |-> w.estimated_time_min ] ]
        h == setitem(stations_df.heap, stations_df.ref, cols)
    IN  { LET nearest_stations == Allocate(h, out.rows)
          IN  Returned(heap, nearest_stations.heap, out.state, nearest_stations.ref) :
          out \in find_nearest_stations(heap[r], user_lat, user_lon, n) }

\* the station_score of a row with or without a distance_km
ScoreOf(row) ==
    IF HasDistance(row)
    THEN calculate_station_score(Measured(row), TRUE)
    ELSE calculate_station_score(row, FALSE)

\* data_processor.py:124-127 rank_stations on the object r, its distances numbers
FrameRankStations(heap, r) ==
    LET df == copy(heap, r)
        cols == [ i \in 1..Len(heap[r]) |-> [ station_score |-> ScoreOf(heap[r][i]) ] ]
        h == setitem(df.heap, df.ref, cols)
    IN  { LET sorted_df == Allocate(h, sorted)
          IN  Returned(heap, sorted_df.heap, "returned", sorted_df.ref) :
          sorted \in SortedByScore(h[df.ref]) }

\* recommendation_model.py:100-109 rank_by_preferences on the object r
FrameRankByPreferences(heap, r, user_preferences) ==
    LET df == copy(heap, r)
        cols == [ i \in 1..Len(heap[r]) |->
                    [ suitability_score |->
                        predict_station_suitability(heap[r][i], user_preferences) ] ]
        h == setitem(df.heap, df.ref, cols)
    IN  { LET sorted_df == Allocate(h, out.rows)
          IN  Returned(heap, sorted_df.heap, out.state, sorted_df.ref) :
          out \in rank_by_preferences(heap[r], user_preferences) }

\* app.py:93, 136-153 a run of the Station Finder on the cached dataset:
\* load_data() hands out a copy of the cached value (st.cache_data), the
\* filters make new objects; the run keeps its stations_df and nearby_stations
FrameStationFinder(heap, cached, widgets) ==
    LET stations_df == Allocate(heap, heap[cached])
        filtered_df == copy(stations_df.heap, stations_df.ref)
        filtered == Allocate(filtered_df.heap,
                             FilteredStations(filtered_df.heap[filtered_df.ref], widgets))
        kept == stations_df.heap
    IN  UNION { IF found.state = "raised"
                THEN { Returned(kept, found.heap, "raised", found.ref) }
                ELSE LET within == Allocate(found.heap,
                                            SelectSeq(found.heap[found.ref],
                                                      LAMBDA row :
                                                         WithinDistance(row, widgets.max_distance)))
                     IN  { Returned(kept, nearby_stations.heap, "returned",
                                    nearby_stations.ref) :
                           nearby_stations \in FrameRankStations(within.heap, within.ref) } :
                found \in FrameFindNearestStations(filtered.heap, filtered.ref,
                                                   widgets.user_lat, widgets.user_lon,
                                                   Len(filtered.heap[filtered.ref])) }

\* the cached dataset: three rows of the bounded dataset
FrameDataset == head(FinderStations, 3)

\* at most MaxCalls calls are followed
MaxCalls == 3

\* the arguments of the calls
FrameLatitudes == { 0, 1 }
FrameCounts == { 1, 3 }
FrameDicts == { [ max_distance_km |-> 0, preferred_power_kw |-> 600 ] }
FrameWidgets ==
    [ user_lat : { 1 }, user_lon : { 0 }, selected_country : { "All" },
      selected_availability : { "All", "Available" }, min_power : { 50 },
      min_rating : { 35 }, max_distance : { 500 } ]

\* the tables a call can be given: those whose distance_km, if any, are numbers
Callable(heap) ==
    { r \in DOMAIN heap :
        \A i \in 1..Len(heap[r]) :
            HasDistance(heap[r][i]) => ~heap[r][i].distance.is_none }

InitFrames ==
    /\ frames = [ state |-> "run", heap |-> (1 :> FrameDataset), cached |-> 1, calls |-> 0,
                  last |-> [ op |-> "none", arg |-> 1, before |-> FrameDataset,
                             state |-> "returned" ] ]
    /\ loads = << >>
    /\ ChatIdle /\ DistIdle /\ ScoreIdle /\ RouteIdle
    /\ RecIdle /\ TripIdle /\ FinderIdle /\ UiIdle /\ SessIdle

\* what a call leaves: the heap, and the argument as it was before the call
AfterCall(op, arg, out) ==
    frames' = [ frames EXCEPT !.heap = out.heap,
                              !.calls = @ + 1,
                              !.last = [ op |-> op, arg |-> arg,
                                         before |-> frames.heap[arg],
                                         state |-> out.state ] ]

\* processor.find_nearest_stations(df, ...) for a table df of the run
FrameCallFindNearestStations ==
    /\ frames.state = "run" /\ frames.calls < MaxCalls
    /\ \E r \in Callable(frames.heap), user_lat \in FrameLatitudes, n \in FrameCounts :
          \E out \in FrameFindNearestStations(frames.heap, r, user_lat, 0, n) :
             AfterCall("find_nearest_stations", r, out)
    /\ UNCHANGED loads
    /\ UNCHANGED <<chat_vars, dist_vars, score_vars, route_vars>>
    /\ UNCHANGED <<rec_vars, trip_vars, finder_vars, ui_vars, sess_vars>>

\* processor.rank_stations(df)
FrameCallRankStations ==
    /\ frames.state = "run" /\ frames.calls < MaxCalls
    /\ \E r \in Callable(frames.heap) :
          \E out \in FrameRankStations(frames.heap, r) :
             AfterCall("rank_stations", r, out)
    /\ UNCHANGED loads
    /\ UNCHANGED <<chat_vars, dist_vars, score_vars, route_vars>>
    /\ UNCHANGED <<rec_vars, trip_vars, finder_vars, ui_vars, sess_vars>>

\* recommender.rank_by_preferences(df, user_preferences)
FrameCallRankByPreferences ==
    /\ frames.state = "run" /\ frames.calls < MaxCalls
    /\ \E r \in Callable(frames.heap), user_preferences \in FrameDicts :
          \E out \in FrameRankByPreferences(frames.heap, r, user_preferences) :
             AfterCall("rank_by_preferences", r, out)
    /\ UNCHANGED loads
    /\ UNCHANGED <<chat_vars, dist_vars, score_vars, route_vars>>
    /\ UNCHANGED <<rec_vars, trip_vars, finder_vars, ui_vars, sess_vars>>

\* a script run of the Station Finder tab
FrameRunStationFinder ==
    /\ frames.state = "run" /\ frames.calls < MaxCalls
    /\ \E widgets \in FrameWidgets :
          \E out \in FrameStationFinder(frames.heap, frames.cached, widgets) :
             AfterCall("station_finder", frames.cached, out)
    /\ UNCHANGED loads
    /\ UNCHANGED <<chat_vars, dist_vars, score_vars, route_vars>>
    /\ UNCHANGED <<rec_vars, trip_vars, finder_vars, ui_vars, sess_vars>>

NextFrames ==
    \/ FrameCallFindNearestStations
    \/ FrameCallRankStations
    \/ FrameCallRankByPreferences
    \/ FrameRunStationFinder

SpecFrames == InitFrames /\ [][NextFrames]_vars

(* Claims about the tables passed in, checked under SpecFrames *)

\* C24: find_nearest_stations, rank_stations and rank_by_preferences leave
\* the table passed to them unchanged (no column added, no row removed or
\* reordered); in particular the cached station dataset is identical before
\* and after any sequence of Station Finder interactions.
C24_ArgumentsUnchanged ==
    /\ frames.heap[frames.cached] = FrameDataset
    /\ frames.last.op # "none" => frames.heap[frames.last.arg] = frames.last.before

\* rank_by_preferences was given the table find_nearest_stations returned
\* from the cached dataset, after a run of the Station Finder: that table has
\* its distance_km and no suitability_score, the cached one neither
C24_Witness ==
    /\ frames.calls = 3
    /\ frames.last.op = "rank_by_preferences"
    /\ frames.last.state = "returned"
    /\ Len(frames.last.before) = 3
    /\ HasDistance(frames.last.before[1])
    /\ "suitability_score" \notin DOMAIN frames.heap[frames.last.arg][1]
    /\ \E r \in DOMAIN frames.heap :
          /\ Len(frames.heap[r]) > 0
          /\ "suitability_score" \in DOMAIN frames.heap[r][1]
    /\ \E r \in DOMAIN frames.heap :
          /\ Len(frames.heap[r]) > 0
          /\ "station_score" \in DOMAIN frames.heap[r][1]
-----------------------------------------------------------------------------
(* app.py, AI Assistant tab: the chat transcript of one session             *)
(* A turn is [role, content, reply]: a user turn holds the question in      *)
(* content (characters, as match_intent reads them), an assistant turn      *)
(* holds the reply text in reply.                                           *)

UserTurn(question) == [ role |-> "user", content |-> question, reply |-> "" ]
AssistantTurn(response) == [ role |-> "assistant", content |-> << >>, reply |-> response ]

\* app.py:306, 313, 320, 327 the contents the four sidebar buttons append
QuickQuestions ==
   <<
      << "H", "o", "w", " ", "d", "o", " ", "I", " ", "f", "i", "n", "d",
         " ", "t", "h", "e", " ", "n", "e", "a", "r", "e", "s", "t", " ",
         "c", "h", "a", "r", "g", "i", "n", "g", " ", "s", "t", "a", "t",
         "i", "o", "n", "?" >>,
      << "W", "h", "a", "t", " ", "a", "r", "e", " ", "t", "y", "p", "i",
         "c", "a", "l", " ", "c", "h", "a", "r", "g", "i", "n", "g", " ",
         "c", "o", "s", "t", "s", "?" >>,
      << "W", "h", "a", "t", " ", "a", "r", "e", " ", "t", "h", "e", " ",
         "d", "i", "f", "f", "e", "r", "e", "n", "t", " ", "c", "o", "n",
         "n", "e", "c", "t", "o", "r", " ", "t", "y", "p", "e", "s", "?" >>,
      << "H", "o", "w", " ", "l", "o", "n", "g", " ", "d", "o", "e", "s",
         " ", "i", "t", " ", "t", "a", "k", "e", " ", "t", "o", " ", "c",
         "h", "a", "r", "g", "e", "?" >>
   >>

\* app.py:288-299 a submitted question: the user turn, then the reply
AnsweredQuestion(history, question, response) ==
    Append(Append(history, UserTurn(question)), AssistantTurn(response))

\* mutant: the button starts the transcript over with its question
QuickQuestionAdded_Fresh(history, question) == << UserTurn(question) >>

\* app.py:303-329 a quick-question button: the user turn, then st.rerun(); the
\* rerun has neither a submitted question nor a pressed button
QuickQuestionAdded(history, question) == Append(history, UserTurn(question))

\* app.py:331-333
ClearedHistory(history) == << >>

\* the transcript holds at most MaxTurns turns
MaxTurns == 4

\* the questions typed into st.chat_input
TypedQuestions == { << "c", "o", "s", "t" >>, << "?", "?" >> }

InitChatUi ==
    /\ punkt_ok \in BOOLEAN
    /\ chat_input = << >>
    /\ chat_intent = "idle"
    /\ chat_response = ""
    /\ UiIdle
    /\ DistIdle /\ ScoreIdle /\ RouteIdle
    /\ RecIdle /\ TripIdle /\ DataIdle /\ FinderIdle /\ SessIdle

\* a script run with user_question set
SubmitQuestion ==
    /\ Len(chat_history) + 2 <= MaxTurns
    /\ \E question \in TypedQuestions :
          \E response \in ResponsesFor(match_intent(question, punkt_ok)) :
             chat_history' = AnsweredQuestion(chat_history, question, response)
    /\ last_op' = "question"
    /\ UNCHANGED <<chat_vars, dist_vars, score_vars, route_vars>>
    /\ UNCHANGED <<rec_vars, trip_vars, data_vars, finder_vars, sess_vars>>

\* a script run with one of the four quick-question buttons pressed, and the
\* rerun it asks for
PressQuickQuestion ==
    /\ Len(chat_history) + 1 <= MaxTurns
    /\ \E b \in 1..Len(QuickQuestions) :
          chat_history' = QuickQuestionAdded(chat_history, QuickQuestions[b])
    /\ last_op' = "quick"
    /\ UNCHANGED <<chat_vars, dist_vars, score_vars, route_vars>>
    /\ UNCHANGED <<rec_vars, trip_vars, data_vars, finder_vars, sess_vars>>

\* a script run with 'Clear chat' pressed, and the rerun it asks for
PressClearChat ==
    /\ chat_history' = ClearedHistory(chat_history)
    /\ last_op' = "clear"
    /\ UNCHANGED <<chat_vars, dist_vars, score_vars, route_vars>>
    /\ UNCHANGED <<rec_vars, trip_vars, data_vars, finder_vars, sess_vars>>

\* a script run for any other widget: app.py:279-333 with nothing submitted
RunWithoutChatInput ==
    /\ last_op' = "none"
    /\ UNCHANGED chat_history
    /\ UNCHANGED <<chat_vars, dist_vars, score_vars, route_vars>>
    /\ UNCHANGED <<rec_vars, trip_vars, data_vars, finder_vars, sess_vars>>

NextChatUi == SubmitQuestion \/ PressQuickQuestion \/ PressClearChat \/ RunWithoutChatInput

SpecChatUi == InitChatUi /\ [][NextChatUi]_vars

(* Claims about the transcript *)

\* C13: the transcript is append-only within a session: every interaction
\* other than 'Clear chat' leaves the existing turns unchanged in content and
\* order and only appends at the end; 'Clear chat' leaves it empty.
C13_TranscriptAppendOnly ==
    [][ /\ last_op' # "clear" =>
              /\ Len(chat_history') >= Len(chat_history)
              /\ SubSeq(chat_history', 1, Len(chat_history)) = chat_history
        /\ last_op' = "clear" => chat_history' = << >> ]_vars

\* a quick question appended behind an answered typed question
C13_Witness ==
    /\ last_op = "quick"
    /\ Len(chat_history) = 3
    /\ chat_history[1].role = "user"
    /\ chat_history[2].role = "assistant"
    /\ chat_history[3] = UserTurn(QuickQuestions[2])

\* C19: after any sequence of chat interactions every user turn of the
\* transcript is immediately followed by an assistant turn holding the
\* chatbot's reply to it.
C19_EveryQuestionAnswered ==
    \A i \in 1..Len(chat_history) :
        chat_history[i].role = "user" =>
            /\ i < Len(chat_history)
            /\ chat_history[i + 1].role = "assistant"
            /\ chat_history[i + 1].reply
                  \in ResponsesFor(match_intent(chat_history[i].content, punkt_ok))

-----------------------------------------------------------------------------
(* app.py: sessions sharing the RouteOptimizer that initialize_models caches. *)
(* st.cache_resource hands the same objects to every session, and each       *)
(* session's script run has a thread of its own; a find_optimal_station call *)
(* of one session is interleaved with those of the others between its calls  *)
(* of build_graph_from_stations and find_shortest_path.                      *)

Sessions == { 1, 2 }

\* the (user location, station list) a session's route button passes on
SessionTables ==
    { << [ station_id |-> "US001", latitude |-> 0, longitude |-> 1,
           availability |-> "Available" ] >>,
      << [ station_id |-> "IN001", latitude |-> 1, longitude |-> 0,
           availability |-> "Available" ] >>,
      << [ station_id |-> "US001", latitude |-> 0, longitude |-> 2,
           availability |-> "Available" ],
         [ station_id |-> "IN001", latitude |-> 0, longitude |-> 0,
           availability |-> "In Use" ] >> }

SessionInputs ==
    [ pc : { "start" }, user_location : UserPoints, stations_df : SessionTables,
      i : { 1 }, best : { NoBest } ]

InitSessions ==
    /\ sess \in [Sessions -> SessionInputs]
    /\ RouteIdle
    /\ ChatIdle /\ DistIdle /\ ScoreIdle
    /\ RecIdle /\ TripIdle /\ DataIdle /\ FinderIdle /\ UiIdle

\* route_optimizer.py:69 the session's call of build_graph_from_stations
SessionBuildsGraph(s) ==
    /\ sess[s].pc = "start"
    /\ graph' = build_graph(graph, sess[s].stations_df, sess[s].user_location)
    /\ built' = [ done |-> TRUE, stations_df |-> sess[s].stations_df,
                  user_location |-> sess[s].user_location,
                  stale |-> ~(Range(graph.nodes) \subseteq
                                ({ UserNode } \cup TableIds(sess[s].stations_df))) ]
    /\ sess' = [ sess EXCEPT ![s].pc = "loop" ]
    /\ UNCHANGED sp_out
    /\ UNCHANGED <<chat_vars, dist_vars, score_vars>>
    /\ UNCHANGED <<rec_vars, trip_vars, data_vars, finder_vars, ui_vars>>

\* route_optimizer.py:75-83 one round of the loop, on the graph as it is now
SessionChecksRow(s) ==
    /\ sess[s].pc = "loop"
    /\ sess[s].i <= Len(sess[s].stations_df)
    /\ LET row == sess[s].stations_df[sess[s].i]
       IN  IF ~IsAvailable(row)
           THEN sess' = [ sess EXCEPT ![s].i = @ + 1 ]
           ELSE \E path_info \in find_shortest_path(graph, UserNode, row.station_id) :
                   sess' =
                     IF path_info.outcome = "raised"
                     THEN [ sess EXCEPT ![s].pc = "raised" ]
                     ELSE IF path_info.outcome = "path"
                               /\ CloserThan(path_info.distance_km, sess[s].best.best_distance)
                     THEN [ sess EXCEPT
                              ![s].i = @ + 1,
                              ![s].best =
                                 [ best_station |-> [ is_none |-> FALSE, row |-> row ],
                                   best_distance |-> [ inf |-> FALSE,
                                                       v |-> path_info.distance_km ],
                                   best_path_info |-> path_info ] ]
                     ELSE [ sess EXCEPT ![s].i = @ + 1 ]
    /\ UNCHANGED route_vars
    /\ UNCHANGED <<chat_vars, dist_vars, score_vars>>
    /\ UNCHANGED <<rec_vars, trip_vars, data_vars, finder_vars, ui_vars>>

\* route_optimizer.py:85 return best_station, best_path_info
SessionReturns(s) ==
    /\ sess[s].pc = "loop"
    /\ sess[s].i > Len(sess[s].stations_df)
    /\ sess' = [ sess EXCEPT ![s].pc = "done" ]
    /\ UNCHANGED route_vars
    /\ UNCHANGED <<chat_vars, dist_vars, score_vars>>
    /\ UNCHANGED <<rec_vars, trip_vars, data_vars, finder_vars, ui_vars>>

NextSessions ==
    \E s \in Sessions : SessionBuildsGraph(s) \/ SessionChecksRow(s) \/ SessionReturns(s)

SpecSessions == InitSessions /\ [][NextSessions]_vars

(* Claims about the sessions *)

\* C14: the result of an optimal-route computation in one session depends
\* only on that session's user location and station list, for every
\* interleaving with the route computations of other sessions on the cached
\* RouteOptimizer: it is the result the computation has on its own.
C14_RouteResultIsTheSessionsOwn ==
    \A s \in DOMAIN sess :
        /\ sess[s].pc # "raised"
        /\ sess[s].pc = "done" =>
              LET alone == find_optimal_station(EmptyGraph, sess[s].user_location,
                                                sess[s].stations_df)
              IN  /\ sess[s].best.best_station = alone.best_station
                  /\ sess[s].best.best_path_info = alone.best_path_info

=============================================================================
